---- MODULE Spec2Model ----
(***************************************************************************)
(* Finexo Excel Data Importer: the spreadsheet validation and              *)
(* normalisation pipeline of the client (utils/errorHandling.ts, App.tsx)  *)
(* and of the server (excel.service.js, excel.config.js, validators.js,    *)
(* upload.controller.js).                                                  *)
(*                                                                         *)
(* Cell values are JavaScript values.  A value is a record                 *)
(*   [t, b, n, s]  with tag t in                                           *)
(*   "undefined", "null", "boolean", "number", "nan", "string";            *)
(* b is the boolean, n the number in hundredths (so that 1,000,000.01 is   *)
(* exact), s the string as a sequence of one-character strings.            *)
(* A timestamp is a record [ok, d, ms]: days since 1970-01-01 (UTC) and    *)
(* milliseconds within the day; ok = FALSE is the Invalid Date.            *)
(***************************************************************************)
EXTENDS Integers, Sequences, FiniteSets, TLC

-----------------------------------------------------------------------------
(* JavaScript values *)

Undef == [t |-> "undefined", b |-> FALSE, n |-> 0, s |-> <<>>]
Null == [t |-> "null", b |-> FALSE, n |-> 0, s |-> <<>>]
NaNVal == [t |-> "nan", b |-> FALSE, n |-> 0, s |-> <<>>]
Bool(x) == [t |-> "boolean", b |-> x, n |-> 0, s |-> <<>>]
\* a number given in hundredths
NumH(h) == [t |-> "number", b |-> FALSE, n |-> h, s |-> <<>>]
\* an integral number
Num(k) == NumH(k * 100)
Str(chars) == [t |-> "string", b |-> FALSE, n |-> 0, s |-> chars]

\* typeof v
TypeOf(v) ==
  CASE v.t = "nan" -> "number"
    [] v.t = "null" -> "object"
    [] OTHER -> v.t

\* ToBoolean(v): the truthiness used by !v and by (v ? a : b)
Truthy(v) ==
  CASE v.t = "boolean" -> v.b
    [] v.t = "number" -> v.n # 0
    [] v.t = "string" -> Len(v.s) > 0
    [] OTHER -> FALSE

-----------------------------------------------------------------------------
(* Strings *)

UpperChars == <<"A","B","C","D","E","F","G","H","I","J","K","L","M",
                "N","O","P","Q","R","S","T","U","V","W","X","Y","Z">>
LowerChars == <<"a","b","c","d","e","f","g","h","i","j","k","l","m",
                "n","o","p","q","r","s","t","u","v","w","x","y","z">>
DigitChars == <<"0","1","2","3","4","5","6","7","8","9">>

IndexIn(c, chars) ==
  IF \E i \in DOMAIN chars : chars[i] = c
  THEN CHOOSE i \in DOMAIN chars : chars[i] = c
  ELSE 0

\* String.prototype.toLowerCase
ToLowerCase(s) ==
  [i \in DOMAIN s |->
     IF IndexIn(s[i], UpperChars) # 0 THEN LowerChars[IndexIn(s[i], UpperChars)] ELSE s[i]]

IsSpace(c) == c = " "

RECURSIVE TrimStart(_)
TrimStart(s) ==
  IF s # <<>> /\ IsSpace(Head(s)) THEN TrimStart(Tail(s)) ELSE s

RECURSIVE TrimEnd(_)
TrimEnd(s) ==
  IF s # <<>> /\ IsSpace(s[Len(s)]) THEN TrimEnd(SubSeq(s, 1, Len(s) - 1)) ELSE s

\* String.prototype.trim
Trim(s) == TrimEnd(TrimStart(s))

IsDigit(c) == IndexIn(c, DigitChars) # 0
DigitVal(c) == IndexIn(c, DigitChars) - 1

AllDigits(s) == s # <<>> /\ \A i \in DOMAIN s : IsDigit(s[i])

RECURSIVE DigitsVal(_)
DigitsVal(s) ==
  IF s = <<>> THEN 0 ELSE DigitsVal(SubSeq(s, 1, Len(s) - 1)) * 10 + DigitVal(s[Len(s)])

\* Array.prototype.join over a list of strings, as a list of text pieces
RECURSIVE Join(_, _)
Join(list, sep) ==
  IF list = <<>> THEN <<>>
  ELSE IF Len(list) = 1 THEN <<list[1]>>
  ELSE <<list[1], sep>> \o Join(Tail(list), sep)

Range(f) == {f[i] : i \in DOMAIN f}

-----------------------------------------------------------------------------
(* Numbers: Number(v) *)

\* the decimal literals  [+-]digits[.d[d]]  (up to two fraction digits)
UnsignedToNumber(s) ==
  LET dot == IndexIn(".", s) IN
  IF dot = 0
  THEN IF AllDigits(s) THEN Num(DigitsVal(s)) ELSE NaNVal
  ELSE LET ip == SubSeq(s, 1, dot - 1)
           fp == SubSeq(s, dot + 1, Len(s))
       IN IF AllDigits(ip) /\ AllDigits(fp) /\ Len(fp) <= 2
          THEN NumH(DigitsVal(ip) * 100
                    + (IF Len(fp) = 1 THEN DigitsVal(fp) * 10 ELSE DigitsVal(fp)))
          ELSE NaNVal

\* StringToNumber: white space is trimmed, the empty string is 0
StringToNumber(s) ==
  LET u == Trim(s) IN
  IF u = <<>> THEN Num(0)
  ELSE IF Head(u) = "-"
       THEN LET r == UnsignedToNumber(Tail(u)) IN
            IF r.t = "nan" THEN NaNVal ELSE NumH(0 - r.n)
       ELSE IF Head(u) = "+" THEN UnsignedToNumber(Tail(u))
       ELSE UnsignedToNumber(u)

\* Number(v)
ToNumber(v) ==
  CASE v.t = "undefined" -> NaNVal
    [] v.t = "null" -> Num(0)
    [] v.t = "boolean" -> IF v.b THEN Num(1) ELSE Num(0)
    [] v.t = "string" -> StringToNumber(v.s)
    [] OTHER -> v

\* isNaN(x) for a number x
IsNaN(x) == x.t = "nan"

-----------------------------------------------------------------------------
(* Dates: the Date object as [ok, d, ms] *)

DayMs == 86400 * 1000

InvalidDate == [ok |-> FALSE, d |-> 0, ms |-> 0]
Ts(d, ms) == [ok |-> TRUE, d |-> d, ms |-> ms]

\* a < b, a <= b on valid timestamps (Date comparison by time value)
TsLT(a, b) == a.d < b.d \/ (a.d = b.d /\ a.ms < b.ms)
TsLE(a, b) == a.d < b.d \/ (a.d = b.d /\ a.ms <= b.ms)

\* days since 1970-01-01 of the proleptic Gregorian date y-m-d
DaysFromCivil(y, m, d) ==
  LET yy == IF m <= 2 THEN y - 1 ELSE y
      era == yy \div 400
      yoe == yy - era * 400
      mp == IF m > 2 THEN m - 3 ELSE m + 9
      doy == (153 * mp + 2) \div 5 + d - 1
      doe == yoe * 365 + yoe \div 4 - yoe \div 100 + doy
  IN era * 146097 + doe - 719468

\* the Gregorian date [y, m, d] of a day count
CivilFromDays(z0) ==
  LET z == z0 + 719468
      era == z \div 146097
      doe == z - era * 146097
      yoe == (doe - doe \div 1460 + doe \div 36524 - doe \div 146096) \div 365
      doy == doe - (365 * yoe + yoe \div 4 - yoe \div 100)
      mp == (5 * doy + 2) \div 153
      d == doy - (153 * mp + 2) \div 5 + 1
      m == IF mp < 10 THEN mp + 3 ELSE mp - 9
      y == yoe + era * 400 + (IF m <= 2 THEN 1 ELSE 0)
  IN [y |-> y, m |-> m, d |-> d]

\* Date.parse of the date-only ISO form YYYY-MM-DD (UTC midnight);
\* every other string of the model's alphabet is not a date
DateParse(s) ==
  IF /\ Len(s) = 10
     /\ s[5] = "-" /\ s[8] = "-"
     /\ AllDigits(SubSeq(s, 1, 4)) /\ AllDigits(SubSeq(s, 6, 7)) /\ AllDigits(SubSeq(s, 9, 10))
     /\ DigitsVal(SubSeq(s, 6, 7)) \in 1..12
     /\ DigitsVal(SubSeq(s, 9, 10)) \in 1..31
  THEN Ts(DaysFromCivil(DigitsVal(SubSeq(s, 1, 4)), DigitsVal(SubSeq(s, 6, 7)),
                        DigitsVal(SubSeq(s, 9, 10))), 0)
  ELSE InvalidDate

\* a time value in whole milliseconds as a timestamp
TsOfMs(msI) == Ts(msI \div DayMs, msI % DayMs)

\* new Date(v)
NewDate(v) ==
  CASE v.t = "string" -> DateParse(v.s)
    [] v.t = "number" ->
         TsOfMs(IF v.n >= 0 THEN v.n \div 100 ELSE 0 - ((0 - v.n) \div 100))
    [] v.t = "boolean" -> TsOfMs(IF v.b THEN 1 ELSE 0)
    [] v.t = "null" -> TsOfMs(0)
    [] OTHER -> InvalidDate

Pad(k, width) ==
  [i \in 1..width |-> DigitChars[((k \div (10 ^ (width - i))) % 10) + 1]]

\* date.toISOString().split('T')[0]
ISODate(ts) ==
  LET c == CivilFromDays(ts.d) IN
  Pad(c.y, 4) \o <<"-">> \o Pad(c.m, 2) \o <<"-">> \o Pad(c.d, 2)

-----------------------------------------------------------------------------
(* Rows and findings *)

\* A row object: keys in insertion order (Object.keys) and their cells.
MkRow(keys, vals) == [keys |-> keys, vals |-> vals]

\* col in row
HasKey(row, k) == k \in DOMAIN row.vals
\* row[k]
Get(row, k) == IF HasKey(row, k) THEN row.vals[k] ELSE Undef

\* row with row[k] := v (k keeps its position, a new key is appended)
SetKey(row, k, v) ==
  [keys |-> IF HasKey(row, k) THEN row.keys ELSE Append(row.keys, k),
   vals |-> [x \in DOMAIN row.vals \cup {k} |-> IF x = k THEN v ELSE row.vals[x]]]

\* the value handed to a validator: an array of rows, or something else
Arr(rows) == [isArray |-> TRUE, rows |-> rows]
NotArr == [isArray |-> FALSE, rows |-> <<>>]

\* a finding without a column, and one with
SheetFinding(r, msg, sev) == [row |-> r, message |-> msg, severity |-> sev]
CellFinding(r, col, msg, sev) ==
  [row |-> r, column |-> col, message |-> msg, severity |-> sev]

IsError(f) == f.severity = "error"
IsWarning(f) == f.severity = "warning"

requiredColumns == <<"Name", "Amount", "Date", "Verified">>

MAX_NAME_LENGTH == 100
MAX_AMOUNT == 1000000
MAX_ROWS == 10000

\* requiredColumns.filter(col => !(col in firstRow))
MissingColumns(firstRow) ==
  SelectSeq(requiredColumns, LAMBDA col : ~HasKey(firstRow, col))

\* the extra columns looked up from a fixed list instead of the row's keys
ExtraColumns_FixedOrder(firstRow) ==
  SelectSeq(<<"Code", "DT", "Notes">>, LAMBDA col : HasKey(firstRow, col))

\* Object.keys(firstRow).filter(col => !requiredColumns.includes(col))
ExtraColumns(firstRow) ==
  SelectSeq(firstRow.keys, LAMBDA col : col \notin Range(requiredColumns))

-----------------------------------------------------------------------------
(* Client: validateExcelData.  Each field check yields [e, w]: the findings *)
(* it pushes to errors and to warnings.                                    *)

NoFinding == [e |-> <<>>, w |-> <<>>]
PushError(r, col, msg) == [e |-> <<CellFinding(r, col, <<msg>>, "error")>>, w |-> <<>>]
PushWarning(r, col, msg) == [e |-> <<>>, w |-> <<CellFinding(r, col, <<msg>>, "warning")>>]

ValidateName(row, rowNum) ==
  LET v == Get(row, "Name") IN
  IF ~Truthy(v) THEN PushError(rowNum, "Name", "Name is required")
  ELSE IF TypeOf(v) # "string" THEN PushError(rowNum, "Name", "Name must be text")
  ELSE IF Len(Trim(v.s)) = 0 THEN PushError(rowNum, "Name", "Name cannot be empty")
  ELSE IF Len(v.s) > MAX_NAME_LENGTH
       THEN PushWarning(rowNum, "Name", "Name is unusually long (>100 characters)")
  ELSE NoFinding

\* ValidateAmount with the large-amount test written >= instead of >
ValidateAmount_LargeInclusive(row, rowNum) ==
  LET v == Get(row, "Amount") IN
  IF v.t = "undefined" \/ v.t = "null"
  THEN PushError(rowNum, "Amount", "Amount is required")
  ELSE LET amount == ToNumber(v) IN
       IF IsNaN(amount) THEN PushError(rowNum, "Amount", "Amount must be a number")
       ELSE IF amount.n <= 0 THEN PushError(rowNum, "Amount", "Amount must be positive")
       ELSE IF amount.n >= MAX_AMOUNT * 100
            THEN PushWarning(rowNum, "Amount", "Amount is unusually large (>1,000,000)")
       ELSE NoFinding

ValidateAmount(row, rowNum) ==
  LET v == Get(row, "Amount") IN
  IF v.t = "undefined" \/ v.t = "null"
  THEN PushError(rowNum, "Amount", "Amount is required")
  ELSE LET amount == ToNumber(v) IN
       IF IsNaN(amount) THEN PushError(rowNum, "Amount", "Amount must be a number")
       ELSE IF amount.n <= 0 THEN PushError(rowNum, "Amount", "Amount must be positive")
       ELSE IF amount.n > MAX_AMOUNT * 100
            THEN PushWarning(rowNum, "Amount", "Amount is unusually large (>1,000,000)")
       ELSE NoFinding

\* ValidateDate with the future test written >= instead of >
ValidateDate_FutureInclusive(row, rowNum, now) ==
  LET v == Get(row, "Date") IN
  IF ~Truthy(v) THEN PushError(rowNum, "Date", "Date is required")
  ELSE LET date == NewDate(v) IN
       IF ~date.ok THEN PushError(rowNum, "Date", "Invalid date format")
       ELSE IF TsLE(now, date) THEN PushWarning(rowNum, "Date", "Date is in the future")
       ELSE NoFinding

ValidateDate(row, rowNum, now) ==
  LET v == Get(row, "Date") IN
  IF ~Truthy(v) THEN PushError(rowNum, "Date", "Date is required")
  ELSE LET date == NewDate(v) IN
       IF ~date.ok THEN PushError(rowNum, "Date", "Invalid date format")
       ELSE IF TsLT(now, date) THEN PushWarning(rowNum, "Date", "Date is in the future")
       ELSE NoFinding

VerifiedTokens == { <<"y","e","s">>, <<"n","o">>, <<"t","r","u","e">>, <<"f","a","l","s","e">> }

\* the Verified check comparing the lower-cased string without trimming it
ValidateVerified_NoTrim(row, rowNum) ==
  LET v == Get(row, "Verified") IN
  IF v.t = "undefined" \/ v.t = "null"
  THEN PushError(rowNum, "Verified", "Verified status is required")
  ELSE IF TypeOf(v) = "string"
       THEN IF ToLowerCase(v.s) \notin VerifiedTokens
            THEN PushError(rowNum, "Verified", "Verified must be Yes/No or True/False")
            ELSE NoFinding
  ELSE IF TypeOf(v) # "boolean"
       THEN PushError(rowNum, "Verified", "Verified must be a boolean value")
  ELSE NoFinding

ValidateVerified(row, rowNum) ==
  LET v == Get(row, "Verified") IN
  IF v.t = "undefined" \/ v.t = "null"
  THEN PushError(rowNum, "Verified", "Verified status is required")
  ELSE IF TypeOf(v) = "string"
       THEN IF Trim(ToLowerCase(v.s)) \notin VerifiedTokens
            THEN PushError(rowNum, "Verified", "Verified must be Yes/No or True/False")
            ELSE NoFinding
  ELSE IF TypeOf(v) # "boolean"
       THEN PushError(rowNum, "Verified", "Verified must be a boolean value")
  ELSE NoFinding

\* the row body with the field checks chained by else: a field is checked
\* only when no earlier field pushed an error
ValidateDataRow_ShortCircuit(row, rowNum, now) ==
  LET a == ValidateName(row, rowNum)
      b == IF a.e = <<>> THEN ValidateAmount(row, rowNum) ELSE NoFinding
      c == IF a.e \o b.e = <<>> THEN ValidateDate(row, rowNum, now) ELSE NoFinding
      d == IF a.e \o b.e \o c.e = <<>> THEN ValidateVerified(row, rowNum) ELSE NoFinding
  IN [e |-> a.e \o b.e \o c.e \o d.e, w |-> a.w \o b.w \o c.w \o d.w]

\* the body of data.forEach((row, index) => ...) for one row
ValidateDataRow(row, rowNum, now) ==
  LET a == ValidateName(row, rowNum)
      b == ValidateAmount(row, rowNum)
      c == ValidateDate(row, rowNum, now)
      d == ValidateVerified(row, rowNum)
  IN [e |-> a.e \o b.e \o c.e \o d.e, w |-> a.w \o b.w \o c.w \o d.w]

\* the forEach pushing every finding to one list, in visiting order
RECURSIVE ForEachRow_OneList(_, _, _)
ForEachRow_OneList(rows, k, now) ==
  IF k = 0 THEN NoFinding
  ELSE LET acc == ForEachRow_OneList(rows, k - 1, now)
           r == ValidateDataRow(rows[k], k, now)
       IN [e |-> acc.e \o r.e \o r.w, w |-> <<>>]

\* errors and warnings after the forEach has visited rows 1..k
RECURSIVE ForEachRow(_, _, _)
ForEachRow(rows, k, now) ==
  IF k = 0 THEN NoFinding
  ELSE LET acc == ForEachRow(rows, k - 1, now)
           r == ValidateDataRow(rows[k], k, now)
       IN [e |-> acc.e \o r.e, w |-> acc.w \o r.w]

validateExcelData(data, now) ==
  IF ~data.isArray
  THEN <<SheetFinding(0, <<"Invalid data format: Expected an array of rows">>, "error")>>
  ELSE IF Len(data.rows) = 0
  THEN <<SheetFinding(0, <<"File is empty">>, "error")>>
  ELSE IF Len(MissingColumns(data.rows[1])) > 0
  THEN <<SheetFinding(1, <<"Missing required columns: ">>
                          \o Join(MissingColumns(data.rows[1]), ", "), "error")>>
  ELSE LET acc == ForEachRow(data.rows, Len(data.rows), now) IN acc.e \o acc.w

-----------------------------------------------------------------------------
(* Client: validateSheetStructure *)

MissingColumnsFinding(firstRow) ==
  IF Len(MissingColumns(firstRow)) > 0
  THEN <<SheetFinding(0, <<"Missing required columns: ">>
                          \o Join(MissingColumns(firstRow), ", "), "error")>>
  ELSE <<>>

ExtraColumnsFinding(firstRow) ==
  IF Len(ExtraColumns(firstRow)) > 0
  THEN <<SheetFinding(0, <<"Warning: Found extra columns that will be ignored: ">>
                          \o Join(ExtraColumns(firstRow), ", "), "warning")>>
  ELSE <<>>

\* validateSheetStructure returning right after the missing-columns error
validateSheetStructure_ReturnOnMissing(data) ==
  IF ~data.isArray
  THEN <<SheetFinding(0, <<"Invalid file format: Expected Excel data">>, "error")>>
  ELSE IF Len(data.rows) = 0
  THEN <<SheetFinding(0, <<"Sheet is empty">>, "error")>>
  ELSE IF Len(data.rows) > MAX_ROWS
  THEN <<SheetFinding(0, <<"Sheet contains too many rows (>10,000). Please split the data into smaller files.">>, "error")>>
  ELSE IF Len(MissingColumns(data.rows[1])) > 0 THEN MissingColumnsFinding(data.rows[1])
  ELSE ExtraColumnsFinding(data.rows[1])

\* validateSheetStructure with the size test written >= instead of >
validateSheetStructure_LimitInclusive(data) ==
  IF ~data.isArray
  THEN <<SheetFinding(0, <<"Invalid file format: Expected Excel data">>, "error")>>
  ELSE IF Len(data.rows) = 0
  THEN <<SheetFinding(0, <<"Sheet is empty">>, "error")>>
  ELSE IF Len(data.rows) >= MAX_ROWS
  THEN <<SheetFinding(0, <<"Sheet contains too many rows (>10,000). Please split the data into smaller files.">>, "error")>>
  ELSE MissingColumnsFinding(data.rows[1]) \o ExtraColumnsFinding(data.rows[1])

validateSheetStructure(data) ==
  IF ~data.isArray
  THEN <<SheetFinding(0, <<"Invalid file format: Expected Excel data">>, "error")>>
  ELSE IF Len(data.rows) = 0
  THEN <<SheetFinding(0, <<"Sheet is empty">>, "error")>>
  ELSE IF Len(data.rows) > MAX_ROWS
  THEN <<SheetFinding(0, <<"Sheet contains too many rows (>10,000). Please split the data into smaller files.">>, "error")>>
  ELSE MissingColumnsFinding(data.rows[1]) \o ExtraColumnsFinding(data.rows[1])

-----------------------------------------------------------------------------
(* Server: validators.js, excel.config.js, excel.service.js *)

\* String(k) for a natural number k
RECURSIVE NatToChars(_)
NatToChars(k) ==
  IF k < 10 THEN <<DigitChars[k + 1]>>
  ELSE NatToChars(k \div 10) \o <<DigitChars[(k % 10) + 1]>>

\* String(x) for a number x held in hundredths
NumToChars(h) ==
  LET a == IF h < 0 THEN 0 - h ELSE h
      ip == NatToChars(a \div 100)
      f == a % 100
      fp == IF f = 0 THEN <<>>
            ELSE IF f % 10 = 0 THEN <<".", DigitChars[(f \div 10) + 1]>>
            ELSE <<".", DigitChars[(f \div 10) + 1], DigitChars[(f % 10) + 1]>>
  IN (IF h < 0 THEN <<"-">> ELSE <<>>) \o ip \o fp

\* String(v)
ToStringJS(v) ==
  CASE v.t = "string" -> v.s
    [] v.t = "number" -> NumToChars(v.n)
    [] v.t = "nan" -> <<"N","a","N">>
    [] v.t = "boolean" -> IF v.b THEN <<"t","r","u","e">> ELSE <<"f","a","l","s","e">>
    [] v.t = "null" -> <<"n","u","l","l">>
    [] OTHER -> <<"u","n","d","e","f","i","n","e","d">>

\* twelveMonthsAgo.setMonth(now.getMonth() - 12): the same day and time of
\* day one year earlier (a day the month lacks rolls over), in UTC
TwelveMonthsAgo(now) ==
  LET c == CivilFromDays(now.d) IN Ts(DaysFromCivil(c.y - 1, c.m, c.d), now.ms)

isCurrentMonth(date, now) ==
  TsLE(TwelveMonthsAgo(now), date) /\ TsLE(date, now)

\* sheetConfigs.default
columnMapping ==
  << [excelColumn |-> "Name", dbField |-> "name"],
     [excelColumn |-> "Amount", dbField |-> "amount"],
     [excelColumn |-> "Date", dbField |-> "date"],
     [excelColumn |-> "Verified", dbField |-> "verified"] >>

validations ==
  [name |-> [required |-> TRUE, type |-> "string", hasMin |-> FALSE, min |-> 0,
             validator |-> "", hasTransform |-> FALSE],
   amount |-> [required |-> TRUE, type |-> "number", hasMin |-> TRUE, min |-> 0,
               validator |-> "", hasTransform |-> FALSE],
   date |-> [required |-> TRUE, type |-> "date", hasMin |-> FALSE, min |-> 0,
             validator |-> "isCurrentMonth", hasTransform |-> FALSE],
   verified |-> [required |-> FALSE, type |-> "boolean", hasMin |-> FALSE, min |-> 0,
                 validator |-> "", hasTransform |-> TRUE]]

\* the outcome of a call: a returned value, or a thrown Error with a message
Returned(v) == [threw |-> FALSE, value |-> v, message |-> <<>>]
Threw(msg) == [threw |-> TRUE, value |-> Null, message |-> msg]

\* validations.verified.transform: (value) => value.toLowerCase() === 'yes'
VerifiedTransform(value) ==
  IF TypeOf(value) = "string"
  THEN Returned(Bool(ToLowerCase(value.s) = <<"y","e","s">>))
  ELSE Threw(<<"value.toLowerCase is not a function">>)

\* case 'number' of validateField, num = Number(value)
NumberField(num, validation, fieldName) ==
  IF IsNaN(num) THEN Threw(<<fieldName, " must be a number">>)
  ELSE IF validation.hasMin /\ num.n < validation.min * 100
       THEN Threw(<<fieldName, " must be greater than ", "0">>)
  ELSE Returned(num)

\* case 'date' of validateField, date = new Date(value); the Date is
\* returned as a timestamp
DateField(date, validation, fieldName, now) ==
  IF ~date.ok THEN Threw(<<fieldName, " must be a valid date">>)
  ELSE IF validation.validator = "isCurrentMonth" /\ ~isCurrentMonth(date, now)
       THEN Threw(<<fieldName, " must be in the current month">>)
  ELSE Returned(date)

\* ExcelService.validateField
validateField(value, validation, fieldName, now) ==
  IF ~Truthy(value) /\ ~validation.required THEN Returned(Null)
  ELSE CASE validation.type = "number" -> NumberField(ToNumber(value), validation, fieldName)
         [] validation.type = "date" -> DateField(NewDate(value), validation, fieldName, now)
         [] validation.type = "boolean" ->
              IF validation.hasTransform THEN VerifiedTransform(value)
              ELSE Returned(Bool(Truthy(value)))
         [] OTHER -> Returned(Str(ToStringJS(value)))

ServerError(sheetName, rowNumber, msg) ==
  [sheet |-> sheetName, row |-> rowNumber, message |-> msg]

\* the try/catch around validateField in validateRow, r its outcome
TryField(r, rowNumber, sheetName) ==
  IF r.threw
  THEN [ok |-> FALSE, value |-> Null, errors |-> <<ServerError(sheetName, rowNumber, r.message)>>]
  ELSE [ok |-> TRUE, value |-> r.value, errors |-> <<>>]

\* one iteration of the loop of validateRow over columnMapping, for
\* value = row[excelColumn]: [ok, value, errors]
ValidateColumn(value, m, rowNumber, sheetName, now) ==
  IF validations[m.dbField].required /\ ~Truthy(value)
  THEN [ok |-> FALSE, value |-> Null,
        errors |-> <<ServerError(sheetName, rowNumber, <<m.excelColumn, " is required">>)>>]
  ELSE TryField(validateField(value, validations[m.dbField], m.excelColumn, now),
                rowNumber, sheetName)

NullData == [null |-> TRUE]

\* the value returned by validateRow, c the outcomes of the four columns
RowResult(c, sheetName) ==
  [isValid |-> \A i \in 1..4 : c[i].ok,
   data |-> IF \A i \in 1..4 : c[i].ok
            THEN [name |-> c[1].value, amount |-> c[2].value, date |-> c[3].value,
                  verified |-> c[4].value, sheetName |-> sheetName]
            ELSE NullData,
   errors |-> c[1].errors \o c[2].errors \o c[3].errors \o c[4].errors]

\* ExcelService.validateRow
validateRow(row, rowNumber, sheetName, now) ==
  RowResult([i \in 1..4 |-> ValidateColumn(Get(row, columnMapping[i].excelColumn),
                                           columnMapping[i], rowNumber, sheetName, now)],
            sheetName)

\* a variant that pushes the data of every row, valid or not
PushRow_AlwaysData(acc, validatedRow) ==
  [valid |-> Append(acc.valid, validatedRow.data),
   errors |-> acc.errors \o validatedRow.errors]

\* the body of data.forEach in validateSheetData: valid.push or errors.push
PushRow(acc, validatedRow) ==
  IF validatedRow.isValid
  THEN [valid |-> Append(acc.valid, validatedRow.data), errors |-> acc.errors]
  ELSE [valid |-> acc.valid, errors |-> acc.errors \o validatedRow.errors]

\* ExcelService.validateSheetData: [valid, errors] after rows 1..k
RECURSIVE SheetDataUpTo(_, _, _, _)
SheetDataUpTo(rows, k, sheetName, now) ==
  IF k = 0 THEN [valid |-> <<>>, errors |-> <<>>]
  ELSE PushRow(SheetDataUpTo(rows, k - 1, sheetName, now),
               validateRow(rows[k], k + 1, sheetName, now))

validateSheetData(rows, sheetName, now) == SheetDataUpTo(rows, Len(rows), sheetName, now)

-----------------------------------------------------------------------------
(* Client: the normaliser of handleFileSelect (processedData) *)

\* the characters of the column names that occur in the model
KeyChars(k) ==
  CASE k = "Name" -> <<"N","a","m","e">>
    [] k = "Amount" -> <<"A","m","o","u","n","t">>
    [] k = "Date" -> <<"D","a","t","e">>
    [] k = "Verified" -> <<"V","e","r","i","f","i","e","d">>
    [] k = "Notes" -> <<"N","o","t","e","s">>
    [] k = "DT" -> <<"D","T">>
    [] k = "Code" -> <<"C","o","d","e">>
    [] k = "StartTime" -> <<"S","t","a","r","t","T","i","m","e">>
    [] k = "Width" -> <<"W","i","d","t","h">>

\* pat occurs in s
Contains(s, pat) ==
  \E i \in 1..(Len(s) - Len(pat) + 1) : SubSeq(s, i, i + Len(pat) - 1) = pat

\* /date|dt|time/i.test(key)
IsDateKey(k) ==
  LET c == ToLowerCase(KeyChars(k)) IN
  Contains(c, <<"d","a","t","e">>) \/ Contains(c, <<"d","t">>) \/ Contains(c, <<"t","i","m","e">>)

EXCEL_EPOCH_SERIAL == 25569

\* new Date(Math.round((value - 25569) * 86400 * 1000)) for a number in hundredths
DateOfSerial(h) ==
  LET hd == h - EXCEL_EPOCH_SERIAL * 100 IN Ts(hd \div 100, (hd % 100) * (DayMs \div 100))

NormalizeVerified(value) ==
  IF TypeOf(value) = "string"
  THEN Bool(Trim(ToLowerCase(value.s)) = <<"y","e","s">>)
  ELSE IF TypeOf(value) = "boolean" THEN value
  ELSE Null

\* the date branch rendering a parsed string in a time zone west of UTC:
\* the day before
NormalizeDate_DayBefore(value) ==
  IF Truthy(value)
  THEN IF TypeOf(value) = "number" THEN Str(ISODate(DateOfSerial(value.n)))
       ELSE IF TypeOf(value) = "string"
            THEN IF NewDate(value).ok
                 THEN Str(ISODate(Ts(NewDate(value).d - 1, NewDate(value).ms)))
                 ELSE Null
       ELSE value
  ELSE Null

\* old is the cell copied by { ...row }, kept when no branch assigns
NormalizeDate(value) ==
  IF Truthy(value)
  THEN IF TypeOf(value) = "number" THEN Str(ISODate(DateOfSerial(value.n)))
       ELSE IF TypeOf(value) = "string"
            THEN IF NewDate(value).ok THEN Str(ISODate(NewDate(value))) ELSE Null
       ELSE value
  ELSE Null

NormalizeCell(key, value) ==
  IF key = "Verified" THEN NormalizeVerified(value)
  ELSE IF IsDateKey(key) THEN NormalizeDate(value)
  ELSE value

\* jsonData.map((row) => processedRow)
NormalizeRow(row) ==
  [keys |-> row.keys, vals |-> [k \in DOMAIN row.vals |-> NormalizeCell(k, row.vals[k])]]

NormalizeRows(rows) == [i \in DOMAIN rows |-> NormalizeRow(rows[i])]

-----------------------------------------------------------------------------
(* State *)

VARIABLES
  data,            \* the value handed to a validator
  now,             \* the current timestamp (new Date())
  out,             \* the last validator call: [op, at, findings, server]
  sheets,          \* App state: the sheets, in workbook order, <<[name, rows]>>
  errors,          \* App state: the findings shown, by sheet name
  showErrors,      \* App state: the error dialog is open
  successMessage,  \* App state
  isValidated,     \* App state
  currentFile,     \* App state: the selected File, or NoFile
  isLoading,       \* App state
  activeStep,      \* App state
  toast,           \* the last toast shown
  reading,         \* the files a FileReader is reading
  flights,         \* the /api/upload/validate requests under way
  pass,            \* the locals of the last handleValidate call
  session,         \* server: req.session.validatedData
  db               \* server: the documents of the Data collection, in insertion order

labVars == <<data, out>>
appVars == <<sheets, errors, showErrors, successMessage, isValidated, currentFile,
             isLoading, activeStep, toast, reading, flights, pass>>
serverVars == <<session, db>>
vars == <<data, now, out, sheets, errors, showErrors, successMessage, isValidated,
          currentFile, isLoading, activeStep, toast, reading, flights, pass, session, db>>

NoCall == [op |-> "none", at |-> InvalidDate, findings |-> <<>>, server |-> <<>>]

\* currentFile === null
NoFile == [null |-> TRUE]

\* an empty object {}
EmptyMap == [n \in {} |-> <<>>]

\* a request that has no response (yet)
NoBody == [success |-> FALSE, hasErrors |-> FALSE, errors |-> <<>>, error |-> ""]

\* handleValidate has not run
NoPass == [ran |-> FALSE]

\* the state of App after the first render, and a fresh session
AppInit ==
  /\ sheets = <<>>
  /\ errors = EmptyMap
  /\ showErrors = FALSE
  /\ successMessage = ""
  /\ isValidated = FALSE
  /\ currentFile = NoFile
  /\ isLoading = FALSE
  /\ activeStep = 0
  /\ toast = ""
  /\ reading = {}
  /\ flights = {}
  /\ pass = NoPass
  /\ session = <<>>
  /\ db = <<>>

-----------------------------------------------------------------------------
(* Inputs *)

\* the longest arrays of distinct rows handed to the validators
MaxRowCount == 2
\* the most FileReaders reading at a time
MaxReading == 1
\* the most validate requests under way at a time
MaxInFlight == 1

S_A == <<"A">>
S_Bad == <<"b","a","d">>
S_Maybe == <<"m","a","y","b","e">>
S_Yes == <<"Y","e","s">>
S_PastDate == <<"2","0","2","3","-","0","6","-","0","1">>
S_EdgeDate == <<"2","0","2","4","-","0","1","-","0","5">>
S_FutureDate == <<"2","0","9","9","-","0","1","-","0","1">>
S_OldDate == <<"2","0","2","0","-","0","1","-","0","1">>
Repeat(c, n) == [i \in 1..n |-> c]

NameCells ==
  { Str(S_A), Str(<<>>), Str(<<" ">>), Num(5), Null,
    Str(Repeat("x", MAX_NAME_LENGTH)), Str(Repeat("x", MAX_NAME_LENGTH + 1)) }

AmountCells ==
  { Num(50), Num(0), Num(0 - 5), NumH(1), Num(MAX_AMOUNT), NumH(MAX_AMOUNT * 100 + 1),
    Str(<<"a","b","c">>), Str(<<"5","0">>), Str(<<" ">>), Null }

DateCells ==
  { Str(S_PastDate), Str(S_EdgeDate), Str(S_FutureDate), Str(S_OldDate), Str(S_Bad),
    Str(<<>>), Null }

VerifiedCells ==
  { Bool(TRUE), Bool(FALSE), Str(S_Yes), Str(<<" ","T","R","U","E"," ">>), Str(<<"n","o">>),
    Str(<<"F","a","l","s","e">>), Str(S_Maybe), Num(1), Null }

RowOf(name, amount, date, verified) ==
  MkRow(requiredColumns, [Name |-> name, Amount |-> amount, Date |-> date, Verified |-> verified])

SingleRows ==
  { RowOf(a, b, c, d) : a \in NameCells, b \in AmountCells, c \in DateCells, d \in VerifiedCells }

R_Valid == RowOf(Str(S_A), Num(50), Str(S_PastDate), Str(S_Yes))
R_FourErrors == RowOf(Str(<<>>), Num(0 - 5), Str(S_Bad), Str(S_Maybe))
R_FutureOnly == RowOf(Str(S_A), Num(50), Str(S_FutureDate), Str(S_Yes))
R_Mixed == RowOf(Str(<<>>), NumH(MAX_AMOUNT * 100 + 1), Str(S_FutureDate), Bool(TRUE))
R_LongName == RowOf(Str(Repeat("x", MAX_NAME_LENGTH + 1)), Num(50), Str(S_PastDate), Null)

SmallRows == { R_Valid, R_FourErrors, R_FutureOnly, R_Mixed, R_LongName }

\* rows whose object lacks some required key (a cell the decoder left out)
R_NoVerified ==
  MkRow(<<"Name", "Amount", "Date">>, [Name |-> Str(S_A), Amount |-> Num(50), Date |-> Str(S_PastDate)])
R_NoAmountDate == MkRow(<<"Name", "Verified">>, [Name |-> Str(<<>>), Verified |-> Bool(TRUE)])

RowInputs ==
  { NotArr, Arr(<<>>) }
  \cup { Arr(<<r>>) : r \in SingleRows }
  \cup { Arr(rs) : rs \in UNION { [1..n -> SmallRows] : n \in 2..MaxRowCount } }
  \cup { Arr(<<R_NoVerified, R_Valid>>), Arr(<<R_Valid, R_NoVerified>>), Arr(<<R_NoAmountDate>>) }

EdgeDay == DaysFromCivil(2024, 1, 5)
NowSet == { Ts(EdgeDay - 1, DayMs - 1), Ts(EdgeDay, 0), Ts(EdgeDay, 1) }

-----------------------------------------------------------------------------
(* The row validators applied to a row set: validateExcelData on the       *)
(* client, and the two pipelines (normaliser then validateExcelData;       *)
(* ExcelService.validateRow) on the same raw rows.                         *)

InitRows ==
  /\ data \in RowInputs
  /\ now \in NowSet
  /\ out = NoCall
  /\ AppInit

CallValidateExcelData ==
  /\ out' = [op |-> "validateExcelData", at |-> now,
             findings |-> validateExcelData(data, now), server |-> <<>>]
  /\ UNCHANGED <<data, now, appVars, serverVars>>

CallPipelines ==
  /\ data.isArray
  /\ out' = [op |-> "pipelines", at |-> now,
             findings |-> validateExcelData(Arr(NormalizeRows(data.rows)), now),
             server |-> [k \in DOMAIN data.rows |-> validateRow(data.rows[k], k + 1, "Sheet1", now)]]
  /\ UNCHANGED <<data, now, appVars, serverVars>>

\* time passes
Tick ==
  /\ \E t \in NowSet : TsLT(now, t) /\ now' = t
  /\ UNCHANGED <<data, out, appVars, serverVars>>

NextRows == CallValidateExcelData \/ CallPipelines \/ Tick

SpecRows == InitRows /\ [][NextRows]_vars

-----------------------------------------------------------------------------
(* validateSheetStructure applied to a sheet *)

\* first rows: the keys of a base order that a set of columns selects
KeyOrders ==
  { <<"Name", "Amount", "Date", "Verified", "Notes", "DT">>,
    <<"DT", "Name", "Notes", "Amount", "Date", "Verified">>,
    <<"Code", "Verified", "Date", "Amount", "Name">> }

KeySeqs ==
  { SelectSeq(base, LAMBDA k : k \in S) : S \in SUBSET {"Name", "Amount", "Date", "Verified", "Notes", "DT", "Code"},
                                           base \in KeyOrders }

FirstRowOf(keys) ==
  MkRow(keys, [k \in Range(keys) |-> IF HasKey(R_Valid, k) THEN R_Valid.vals[k] ELSE Str(S_A)])

\* the rows below the first one: only the Name cell is filled in
R_Filler == MkRow(<<"Name">>, [Name |-> Str(S_A)])

SheetLengths == { 1, MaxRowCount, MAX_ROWS - 1, MAX_ROWS, MAX_ROWS + 1 }

SheetOf(keys, n) == Arr([i \in 1..n |-> IF i = 1 THEN FirstRowOf(keys) ELSE R_Filler])

StructInputs ==
  { NotArr, Arr(<<>>) } \cup { SheetOf(keys, n) : keys \in KeySeqs, n \in SheetLengths }

InitStructure ==
  /\ data \in StructInputs
  /\ now = Ts(EdgeDay, 0)
  /\ out = NoCall
  /\ AppInit

CallValidateSheetStructure ==
  /\ out' = [op |-> "validateSheetStructure", at |-> now,
             findings |-> validateSheetStructure(data), server |-> <<>>]
  /\ UNCHANGED <<data, now, appVars, serverVars>>

NextStructure == CallValidateSheetStructure

SpecStructure == InitStructure /\ [][NextStructure]_vars

-----------------------------------------------------------------------------
(* The normaliser applied to decoded rows, once and again to its own output *)

S_LeapOverflow == <<"2","0","2","4","-","0","2","-","3","0">>

\* raw cells of sheet_to_json(..., { raw: true, defval: null })
RawCells ==
  { Null, Bool(TRUE), Bool(FALSE),
    Str(<<>>), Str(<<" ">>), Str(S_Yes), Str(<<"y","e","s">>), Str(<<" ","T","R","U","E"," ">>),
    Str(<<"t","r","u","e">>), Str(<<"n","o">>), Str(<<"F","a","l","s","e">>), Str(S_Maybe),
    Str(S_PastDate), Str(S_EdgeDate), Str(S_Bad), Str(S_LeapOverflow),
    Num(0), Num(1), Num(60), Num(61), Num(EXCEL_EPOCH_SERIAL), Num(45296), NumH(4529650),
    Num(0 - 1) }

NormKeys == { "Verified", "Date", "DT", "StartTime", "Width", "Name", "Amount" }

\* one-cell rows, and a full row of raw cells
NormInputs ==
  { Arr(<<MkRow(<<k>>, [x \in {k} |-> v])>>) : k \in NormKeys, v \in RawCells }
  \cup { Arr(<<RowOf(Str(S_A), Num(50), Num(45296), Str(<<"t","r","u","e">>)), R_Valid>>) }

InitNormalize ==
  /\ data \in NormInputs
  /\ now = Ts(EdgeDay, 0)
  /\ out = NoCall
  /\ AppInit

\* processedData = jsonData.map(...), and the same map applied to processedData
CallNormalize ==
  /\ out' = [op |-> "normalize", at |-> now,
             once |-> NormalizeRows(data.rows),
             twice |-> NormalizeRows(NormalizeRows(data.rows))]
  /\ UNCHANGED <<data, now, appVars, serverVars>>

NextNormalize == CallNormalize

SpecNormalize == InitNormalize /\ [][NextNormalize]_vars

-----------------------------------------------------------------------------
(* formatValidationErrors applied to a list of findings *)

\* error.sheetName || 'Unknown Sheet'
SheetNameOf(error) ==
  IF "sheetName" \in DOMAIN error /\ error.sheetName # "" THEN error.sheetName
  ELSE "Unknown Sheet"

\* { ...error, message: error.column ? `${error.column}: ${error.message}` : error.message }
Formatted(error) ==
  IF "column" \in DOMAIN error /\ error.column # ""
  THEN [error EXCEPT !.message = <<error.column, ": ">> \o error.message]
  ELSE error

\* the reducer with acc[sheetName].unshift(...) in place of push
Reducer_Unshift(acc, error) ==
  [n \in DOMAIN acc \cup {SheetNameOf(error)} |->
     IF n = SheetNameOf(error)
     THEN <<Formatted(error)>> \o (IF n \in DOMAIN acc THEN acc[n] ELSE <<>>)
     ELSE acc[n]]

\* the callback of errors.reduce: acc[sheetName] is created when missing,
\* then the formatted finding is pushed
Reducer(acc, error) ==
  [n \in DOMAIN acc \cup {SheetNameOf(error)} |->
     IF n = SheetNameOf(error)
     THEN Append(IF n \in DOMAIN acc THEN acc[n] ELSE <<>>, Formatted(error))
     ELSE acc[n]]

\* errors.reduce(..., {}) over the first k findings
RECURSIVE ReduceUpTo(_, _)
ReduceUpTo(errs, k) ==
  IF k = 0 THEN EmptyMap ELSE Reducer(ReduceUpTo(errs, k - 1), errs[k])

formatValidationErrors(errs) == ReduceUpTo(errs, Len(errs))

\* the longest list of findings handed to formatValidationErrors
MaxFindings == 3

\* findings with and without a sheetName and a column
FindingPool ==
  { CellFinding(r, c, <<"is required">>, "error") : r \in 1..2, c \in {"Name", "Date"} }
  \cup { SheetFinding(r, <<"File is empty">>, "error") : r \in {0, 2} }
  \cup { [row |-> r, column |-> c, message |-> <<"is required">>, severity |-> "warning",
          sheetName |-> n] : r \in 1..2, c \in {"Name"}, n \in {"Sheet1", "Sheet2"} }
  \cup { [row |-> r, message |-> <<"File is empty">>, sheetName |-> n] :
           r \in {0}, n \in {"Sheet1", "Sheet2"} }

FormatInputs == UNION { [1..n -> FindingPool] : n \in 0..MaxFindings }

InitFormat ==
  /\ data \in FormatInputs
  /\ now = Ts(EdgeDay, 0)
  /\ out = NoCall
  /\ AppInit

CallFormatValidationErrors ==
  /\ out' = [op |-> "formatValidationErrors", at |-> now, result |-> formatValidationErrors(data)]
  /\ UNCHANGED <<data, now, appVars, serverVars>>

NextFormat == CallFormatValidationErrors

SpecFormat == InitFormat /\ [][NextFormat]_vars

-----------------------------------------------------------------------------
(* handleAxiosError applied to a failed request *)

\* an AxiosError: response and request may be missing; data is the ApiError
\* body; an optional string that is missing is held as ""
MkAxiosError(hasResponse, status, body, hasRequest, code, message) ==
  [hasResponse |-> hasResponse, status |-> status, data |-> body,
   hasRequest |-> hasRequest, code |-> code, message |-> message]

\* an ApiError body: errors (<<>> when missing), error, message
MkApiError(errs, error, message) == [errors |-> errs, error |-> error, message |-> message]

\* data.errors.filter(e => e.severity === 'error')
CriticalErrors(errs) ==
  SelectSeq(errs, LAMBDA e : "severity" \in DOMAIN e /\ e.severity = "error")

\* the switch on error.response.status
StatusMessage(status) ==
  CASE status = 400 -> <<"Invalid data format. Please check your Excel file structure.">>
    [] status = 401 -> <<"Unauthorized. Please log in again.">>
    [] status = 403 -> <<"You do not have permission to perform this action.">>
    [] status = 404 -> <<"The requested resource was not found.">>
    [] status = 413 -> <<"The file is too large. Please split it into smaller files.">>
    [] status = 422 ->
         <<"The uploaded file contains invalid data. Please check the file contents.">>
    [] status = 429 -> <<"Too many requests. Please try again later.">>
    [] status = 500 -> <<"Server error. Please try again later.">>
    [] OTHER -> <<"Server error (">> \o NatToChars(status) \o <<"). Please try again later.">>

\* the response branch with data.message tested before data.error
ResponseMessage_MessageFirst(body, status) ==
  IF Len(body.errors) > 0 /\ Len(CriticalErrors(body.errors)) > 0
  THEN <<CriticalErrors(body.errors)[1].message>>
  ELSE IF body.message # "" THEN <<body.message>>
  ELSE IF body.error # "" THEN <<body.error>>
  ELSE StatusMessage(status)

\* the branch if (error.response) of handleAxiosError
ResponseMessage(body, status) ==
  IF Len(body.errors) > 0 /\ Len(CriticalErrors(body.errors)) > 0
  THEN <<CriticalErrors(body.errors)[1].message>>
  ELSE IF body.error # "" THEN <<body.error>>
  ELSE IF body.message # "" THEN <<body.message>>
  ELSE StatusMessage(status)

NO_RESPONSE_MESSAGE == "No response from server. Please check your connection."
TIMEOUT_MESSAGE == "Request timed out. The file might be too large."

handleAxiosError(error, defaultMessage) ==
  IF error.hasResponse THEN ResponseMessage(error.data, error.status)
  ELSE IF error.hasRequest THEN <<NO_RESPONSE_MESSAGE>>
  ELSE IF error.code = "ECONNABORTED" THEN <<TIMEOUT_MESSAGE>>
  ELSE IF error.message # "" THEN <<error.message>>
  ELSE <<defaultMessage>>

E_Warning == [row |-> 1, column |-> "Date", message |-> "Date is in the future", severity |-> "warning"]
E_First == [row |-> 2, column |-> "Name", message |-> "Name is required", severity |-> "error"]
E_Second == [row |-> 3, column |-> "Amount", message |-> "Amount must be positive", severity |-> "error"]
\* an entry as the server sends it: no severity
E_Server == [sheet |-> "Sheet1", row |-> 2, message |-> "Name is required"]

ApiErrorBodies ==
  { MkApiError(errs, error, message) :
      errs \in { <<>>, <<E_Warning>>, <<E_Server>>, <<E_First>>, <<E_Warning, E_First, E_Second>>,
                 <<E_Second, E_First>> },
      error \in { "", "Validation Error" },
      message \in { "", "File validated with problems" } }

Statuses == { 400, 401, 403, 404, 413, 422, 429, 500, 409, 503 }

NoApiError == MkApiError(<<>>, "", "")

AxiosErrors ==
  { MkAxiosError(TRUE, st, body, TRUE, "ERR_BAD_RESPONSE", "Request failed") :
      st \in Statuses, body \in ApiErrorBodies }
  \cup { MkAxiosError(FALSE, 0, NoApiError, rq, code, msg) :
           rq \in BOOLEAN, code \in { "", "ECONNABORTED", "ERR_NETWORK" },
           msg \in { "", "timeout of 30000ms exceeded" } }

InitAxios ==
  /\ data \in AxiosErrors
  /\ now = Ts(EdgeDay, 0)
  /\ out = NoCall
  /\ AppInit

CallHandleAxiosError ==
  /\ out' = [op |-> "handleAxiosError", at |-> now,
             result |-> handleAxiosError(data, "An error occurred")]
  /\ UNCHANGED <<data, now, appVars, serverVars>>

NextAxios == CallHandleAxiosError

SpecAxios == InitAxios /\ [][NextAxios]_vars

-----------------------------------------------------------------------------
(* Files *)

XLSX_TYPE == "application/vnd.openxmlformats-officedocument.spreadsheetml.sheet"
XLS_TYPE == "application/vnd.ms-excel"
allowedTypes == { XLSX_TYPE, XLS_TYPE }

\* maxSize = 10 * 1024 * 1024
maxSize == 10 * 1024 * 1024

\* a File: its name (characters), MIME type, size in bytes, and the workbook
\* it holds: the sheets <<[name, rows]>>, an empty cell being null
MkFile(name, type, size, book) == [name |-> name, type |-> type, size |-> size, book |-> book]

EndsWith(s, suffix) ==
  Len(s) >= Len(suffix) /\ SubSeq(s, Len(s) - Len(suffix) + 1, Len(s)) = suffix

\* file.name.match(/\.(xlsx|xls)$/i)
HasExcelExtension(name) ==
  \/ EndsWith(ToLowerCase(name), <<".","x","l","s","x">>)
  \/ EndsWith(ToLowerCase(name), <<".","x","l","s">>)

NoError == [null |-> TRUE, text |-> ""]
ErrorText(text) == [null |-> FALSE, text |-> text]

\* the File Guard rejecting a file of exactly maxSize bytes
handleFileValidationError_SizeInclusive(file) ==
  IF file = NoFile THEN ErrorText("No file selected")
  ELSE IF ~HasExcelExtension(file.name)
  THEN ErrorText("Only Excel files (.xlsx, .xls) are allowed")
  ELSE IF file.type \notin allowedTypes
  THEN ErrorText("Invalid file type. Only Excel files are allowed")
  ELSE IF file.size = 0 THEN ErrorText("The file is empty")
  ELSE IF file.size >= maxSize THEN ErrorText("File size should not exceed 10MB")
  ELSE NoError

handleFileValidationError(file) ==
  IF file = NoFile THEN ErrorText("No file selected")
  ELSE IF ~HasExcelExtension(file.name)
  THEN ErrorText("Only Excel files (.xlsx, .xls) are allowed")
  ELSE IF file.type \notin allowedTypes
  THEN ErrorText("Invalid file type. Only Excel files are allowed")
  ELSE IF file.size = 0 THEN ErrorText("The file is empty")
  ELSE IF file.size > maxSize THEN ErrorText("File size should not exceed 10MB")
  ELSE NoError

\* XLSX.utils.sheet_to_json(worksheet, { raw: true, defval: null }):
\* every column of the header has a key, an empty cell is null
ClientDecode(rows) == rows

\* XLSX.utils.sheet_to_json(sheet): an empty cell leaves no key
ServerDecodeRow(row) ==
  [keys |-> SelectSeq(row.keys, LAMBDA k : row.vals[k].t # "null"),
   vals |-> [k \in { x \in DOMAIN row.vals : row.vals[x].t # "null" } |-> row.vals[k]]]

ServerDecode(rows) == [i \in DOMAIN rows |-> ServerDecodeRow(rows[i])]

-----------------------------------------------------------------------------
(* Client: App *)

\* the names of the sheets, and the sheet of a name
SheetNames(sh) == { sh[i].name : i \in DOMAIN sh }
SheetNamed(sh, n) == sh[CHOOSE i \in DOMAIN sh : sh[i].name = n]

\* the loop of reader.onload over workbook.SheetNames, when no sheet is empty
ProcessSheets(book) ==
  [i \in DOMAIN book |->
     [name |-> book[i].name, rows |-> NormalizeRows(ClientDecode(book[i].rows))]]

\* handleFileSelect up to reader.readAsArrayBuffer(file)
HandleFileSelect(file) ==
  /\ Cardinality(reading) < MaxReading
  /\ IF ~handleFileValidationError(file).null
     THEN /\ toast' = handleFileValidationError(file).text
          /\ UNCHANGED <<sheets, errors, showErrors, successMessage, isValidated,
                         currentFile, isLoading, activeStep, reading>>
     ELSE /\ isLoading' = TRUE
          /\ activeStep' = 0
          /\ isValidated' = FALSE
          /\ sheets' = <<>>
          /\ errors' = EmptyMap
          /\ showErrors' = FALSE
          /\ successMessage' = ""
          /\ currentFile' = file
          /\ reading' = reading \cup {file}
          /\ UNCHANGED toast
  /\ UNCHANGED <<flights, pass, now, labVars, serverVars>>

\* reader.onload
ReaderOnLoad(file) ==
  /\ file \in reading
  /\ reading' = reading \ {file}
  /\ IF Len(file.book) = 0
     THEN /\ toast' = "The Excel file is empty"
          /\ UNCHANGED <<sheets, activeStep>>
     ELSE IF \E i \in DOMAIN file.book : Len(file.book[i].rows) = 0
     THEN /\ toast' = "Sheet is empty"
          /\ UNCHANGED <<sheets, activeStep>>
     ELSE /\ sheets' = ProcessSheets(file.book)
          /\ activeStep' = 1
          /\ toast' = "File loaded successfully"
  /\ isLoading' = FALSE
  /\ UNCHANGED <<errors, showErrors, successMessage, isValidated, currentFile,
                 flights, pass, now, labVars, serverVars>>

\* reader.onerror
ReaderOnError(file) ==
  /\ file \in reading
  /\ reading' = reading \ {file}
  /\ toast' = "Error reading file"
  /\ isLoading' = FALSE
  /\ UNCHANGED <<sheets, errors, showErrors, successMessage, isValidated, currentFile,
                 activeStep, flights, pass, now, labVars, serverVars>>

\* structureErrors of handleValidate: the sheets with a structural finding
StructureErrors(sh) ==
  [n \in { x \in SheetNames(sh) : validateSheetStructure(Arr(SheetNamed(sh, x).rows)) # <<>> }
     |-> validateSheetStructure(Arr(SheetNamed(sh, n).rows))]

\* dataErrors of handleValidate: the sheets with a field finding
DataErrors(sh, t) ==
  [n \in { x \in SheetNames(sh) : validateExcelData(Arr(SheetNamed(sh, x).rows), t) # <<>> }
     |-> validateExcelData(Arr(SheetNamed(sh, n).rows), t)]

\* the Validate button is rendered and enabled
ValidateButtonEnabled == Len(sheets) > 0 /\ ~isValidated /\ ~isLoading

\* the pass ends with the local findings found: setErrors, setShowErrors,
\* the toast, and finally
LocalFindings(found, text, ranData) ==
  /\ errors' = found
  /\ showErrors' = TRUE
  /\ toast' = text
  /\ isLoading' = FALSE
  /\ pass' = [ran |-> TRUE, at |-> now, sheets |-> sheets,
              structureErrors |-> IF ranData THEN EmptyMap ELSE found,
              ranData |-> ranData, dataErrors |-> IF ranData THEN found ELSE EmptyMap,
              shown |-> TRUE, display |-> found, posted |-> FALSE,
              done |-> TRUE, outcome |-> "local", errorsAfter |-> found,
              sheetsAfter |-> sheets, serverErrors |-> <<>>]
  /\ UNCHANGED flights

\* no local finding: the file and the sheets are posted
PostFile ==
  /\ flights' = flights \cup
                  {[stage |-> "sent", file |-> currentFile, sheets |-> sheets,
                    status |-> 0, body |-> NoBody]}
  /\ isLoading' = TRUE
  /\ pass' = [ran |-> TRUE, at |-> now, sheets |-> sheets,
              structureErrors |-> EmptyMap,
              ranData |-> TRUE, dataErrors |-> EmptyMap,
              shown |-> FALSE, display |-> EmptyMap, posted |-> TRUE,
              done |-> FALSE, outcome |-> "none", errorsAfter |-> EmptyMap,
              sheetsAfter |-> <<>>, serverErrors |-> <<>>]
  /\ UNCHANGED <<errors, showErrors, toast>>

\* handleValidate after the structure check found nothing
DataPass(dataErrors) ==
  IF DOMAIN dataErrors # {}
  THEN LocalFindings(dataErrors, "Invalid data found. Please check the error details.", TRUE)
  ELSE PostFile

\* handleValidate after the structure check
StructurePass(structureErrors) ==
  IF DOMAIN structureErrors # {}
  THEN LocalFindings(structureErrors,
                     "Invalid Excel structure. Please check the required columns.", FALSE)
  ELSE DataPass(DataErrors(sheets, now))

\* handleValidate up to the await of api.post
HandleValidate ==
  /\ ValidateButtonEnabled
  /\ Cardinality(flights) < MaxInFlight
  /\ IF currentFile = NoFile
     THEN /\ toast' = "Please upload a file first"
          /\ UNCHANGED <<errors, showErrors, isLoading, flights, pass>>
     ELSE StructurePass(StructureErrors(sheets))
  /\ UNCHANGED <<sheets, successMessage, isValidated, currentFile, activeStep, reading,
                 now, labVars, serverVars>>

\* prevSheets[sheetName].filter((_, index) => index !== rowIndex)
FilterRow(prevSheets, sheetName, rowIndex) ==
  [i \in DOMAIN prevSheets |->
     IF prevSheets[i].name = sheetName
     THEN [name |-> sheetName,
           rows |-> SubSeq(prevSheets[i].rows, 1, rowIndex)
                      \o SubSeq(prevSheets[i].rows, rowIndex + 2, Len(prevSheets[i].rows))]
     ELSE prevSheets[i]]

\* handleDeleteRow(sheetName, rowIndex): rowIndex counts from 0
HandleDeleteRow(sheetName, rowIndex) ==
  /\ sheetName \in SheetNames(sheets)
  /\ rowIndex \in 0..(Len(SheetNamed(sheets, sheetName).rows) - 1)
  /\ sheets' = FilterRow(sheets, sheetName, rowIndex)
  /\ UNCHANGED <<errors, showErrors, successMessage, isValidated, currentFile, isLoading,
                 activeStep, toast, reading, flights, pass, now, labVars, serverVars>>

\* ErrorDisplay onClose
CloseErrors ==
  /\ showErrors
  /\ showErrors' = FALSE
  /\ UNCHANGED <<sheets, errors, successMessage, isValidated, currentFile, isLoading,
                 activeStep, toast, reading, flights, pass, now, labVars, serverVars>>

-----------------------------------------------------------------------------
(* Server: fileValidation.middleware.js and UploadController.validateFile *)

\* maxFileSize: 2 * 1024 * 1024
maxFileSize == 2 * 1024 * 1024
allowedExtensions == { <<".","x","l","s","x">> }

\* file.originalname.split('.').pop()
RECURSIVE LastSegment(_)
LastSegment(name) ==
  IF IndexIn(".", name) = 0 THEN name
  ELSE LastSegment(SubSeq(name, IndexIn(".", name) + 1, Len(name)))

\* fileFilter
fileFilter(file) == (<<".">> \o ToLowerCase(LastSegment(file.name))) \in allowedExtensions

\* results.push({ sheetName, data: validatedData.valid, errors: validatedData.errors })
SheetResult(sheetName, validatedData) ==
  [sheetName |-> sheetName, data |-> validatedData.valid, errors |-> validatedData.errors]

\* ExcelService.processFile: the result of every sheet, in workbook order
processFile(book, t) ==
  [i \in DOMAIN book |->
     SheetResult(book[i].name, validateSheetData(ServerDecode(book[i].rows), book[i].name, t))]

\* results.flatMap(result => result.errors), results.flatMap(result => result.data)
RECURSIVE FlatErrors(_)
FlatErrors(results) ==
  IF results = <<>> THEN <<>> ELSE Head(results).errors \o FlatErrors(Tail(results))

RECURSIVE FlatData(_)
FlatData(results) ==
  IF results = <<>> THEN <<>> ELSE Head(results).data \o FlatData(Tail(results))

\* a response: the status and the JSON body, and what the handler stored
\* in req.session.validatedData (stored = FALSE: nothing)
Response(status, body, stored, validatedData) ==
  [status |-> status, body |-> body, stored |-> stored, validatedData |-> validatedData]

\* the default response of the error middleware, NODE_ENV not 'production'
ErrorBody(text) == [success |-> FALSE, hasErrors |-> FALSE, errors |-> <<>>, error |-> text]

\* UploadController.validateFile, results = await excelService.processFile(...)
validateFile(results) ==
  IF \E i \in DOMAIN results : Len(results[i].errors) > 0
  THEN Response(400, [success |-> FALSE, hasErrors |-> TRUE, errors |-> FlatErrors(results),
                      error |-> ""], FALSE, <<>>)
  ELSE Response(200, [success |-> TRUE, hasErrors |-> FALSE, errors |-> <<>>, error |-> ""],
                TRUE, FlatData(results))

\* POST /api/upload/validate: upload.single('file'), then validateFile; a
\* rejected upload is answered by the error middleware
PostValidate(file, t) ==
  IF ~fileFilter(file)
  THEN Response(500, ErrorBody("Invalid file type. Only .xlsx files are allowed."), FALSE, <<>>)
  ELSE IF file.size > maxFileSize
  THEN Response(500, ErrorBody("File too large"), FALSE, <<>>)
  ELSE validateFile(processFile(file.book, t))

\* the server has handled the request fl with the response r
Served(fl, r) ==
  /\ flights' = (flights \ {fl}) \cup
                  {[fl EXCEPT !.stage = "answered", !.status = r.status, !.body = r.body]}
  /\ session' = IF r.stored THEN r.validatedData ELSE session

ServerValidate(fl) ==
  /\ fl \in flights
  /\ fl.stage = "sent"
  /\ Served(fl, PostValidate(fl.file, now))
  /\ UNCHANGED <<sheets, errors, showErrors, successMessage, isValidated, currentFile,
                 isLoading, activeStep, toast, reading, pass, now, labVars, db>>

\* Data.insertMany(validatedData, { ordered: false }): every document is
\* inserted, or the call throws after inserting some of them
InsertManyOutcomes(docs) ==
  { [threw |-> FALSE, inserted |-> docs] }
  \cup { [threw |-> TRUE, inserted |-> SelectSeq(docs, LAMBDA d : d \in S)] :
           S \in (SUBSET Range(docs)) \ {Range(docs)} }

\* the response of importData, the documents it inserted, and whether it
\* set req.session.validatedData = null
ImportResult(status, body, inserted, cleared) ==
  [status |-> status, body |-> body, inserted |-> inserted, cleared |-> cleared]

NO_VALIDATED_DATA == "No validated data found. Please upload and validate a file first."

\* UploadController.importData, o the outcome of insertMany
importData(validatedData, o) ==
  IF Len(validatedData) = 0
  THEN ImportResult(400, ErrorBody(NO_VALIDATED_DATA), <<>>, FALSE)
  ELSE IF o.threw
  THEN ImportResult(500, ErrorBody("insertMany failed"), o.inserted, FALSE)
  ELSE ImportResult(200, [success |-> TRUE, hasErrors |-> FALSE, errors |-> <<>>, error |-> ""],
                    o.inserted, TRUE)

\* the request or its response is lost: axios rejects without a response
LoseFlight(fl) ==
  /\ fl \in flights
  /\ fl.stage \in {"sent", "answered"}
  /\ flights' = (flights \ {fl}) \cup {[fl EXCEPT !.stage = "lost", !.status = 0, !.body = NoBody]}
  /\ UNCHANGED <<sheets, errors, showErrors, successMessage, isValidated, currentFile,
                 isLoading, activeStep, toast, reading, pass, now, labVars, serverVars>>

\* errorsBySheet of the catch block of handleValidate
ErrorsBySheet(errs) ==
  [n \in { errs[i].sheet : i \in DOMAIN errs } |->
     LET mine == SelectSeq(errs, LAMBDA e : e.sheet = n) IN
     [i \in DOMAIN mine |-> [row |-> mine[i].row, message |-> mine[i].message]]]

\* how the pass that sent fl ends
Outcome(fl) ==
  IF fl.stage = "answered" /\ fl.status = 200 /\ fl.body.success THEN "accepted"
  ELSE IF fl.stage = "answered" /\ fl.status # 200 /\ fl.body.hasErrors THEN "rejected"
  ELSE "failed"

\* handleValidate after the await: the response, the catch block, finally
ValidateResponse(fl) ==
  /\ fl \in flights
  /\ fl.stage \in {"answered", "lost"}
  /\ flights' = flights \ {fl}
  /\ IF fl.stage = "answered" /\ fl.status = 200
     THEN IF fl.body.success
          THEN /\ isValidated' = TRUE
               /\ sheets' = fl.sheets
               /\ activeStep' = 2
               /\ showErrors' = FALSE
               /\ errors' = EmptyMap
               /\ toast' = "Data validated successfully"
          ELSE UNCHANGED <<isValidated, sheets, activeStep, showErrors, errors, toast>>
     ELSE IF fl.stage = "answered"
     THEN IF fl.body.hasErrors
          THEN /\ errors' = ErrorsBySheet(fl.body.errors)
               /\ showErrors' = TRUE
               /\ toast' = "Validation failed. Please check the error details."
               /\ UNCHANGED <<isValidated, sheets, activeStep>>
          ELSE /\ toast' = (IF fl.body.error # "" THEN fl.body.error ELSE "Validation failed")
               /\ UNCHANGED <<isValidated, sheets, activeStep, showErrors, errors>>
     ELSE /\ toast' = "An unexpected error occurred during validation"
          /\ UNCHANGED <<isValidated, sheets, activeStep, showErrors, errors>>
  /\ isLoading' = FALSE
  /\ pass' = [pass EXCEPT !.done = TRUE, !.outcome = Outcome(fl), !.errorsAfter = errors',
                          !.sheetsAfter = sheets', !.serverErrors = fl.body.errors]
  /\ UNCHANGED <<successMessage, currentFile, reading, now, labVars, serverVars>>

\* the most import requests of a run
MaxImports == 2

\* the Import button is rendered and enabled
ImportButtonEnabled == Len(sheets) > 0 /\ isValidated /\ ~isLoading

\* the rows of the preview when the button was pressed, and what the server
\* inserted for the request
NoImport ==
  [op |-> "none", held |-> <<>>, served |-> FALSE, status |-> 0, inserted |-> <<>>,
   imports |-> 0]

\* handleImport up to the await of api.post
HandleImport ==
  /\ ImportButtonEnabled
  /\ Cardinality(flights) < MaxInFlight
  /\ out.imports < MaxImports
  /\ IF currentFile = NoFile
     THEN /\ toast' = "Please validate the file before importing"
          /\ UNCHANGED <<isLoading, flights, out>>
     ELSE /\ isLoading' = TRUE
          /\ flights' = flights \cup
                          {[stage |-> "import sent", file |-> NoFile, sheets |-> sheets,
                            status |-> 0, body |-> NoBody]}
          /\ out' = [op |-> "import", held |-> sheets, served |-> FALSE, status |-> 0,
                     inserted |-> <<>>, imports |-> out.imports + 1]
          /\ UNCHANGED toast
  /\ UNCHANGED <<sheets, errors, showErrors, successMessage, isValidated, currentFile,
                 activeStep, reading, pass, now, data, serverVars>>

\* the server has handled the import request fl with the result r
ImportServed(fl, r) ==
  /\ flights' = (flights \ {fl}) \cup
                  {[fl EXCEPT !.stage = "import answered", !.status = r.status, !.body = r.body]}
  /\ db' = db \o r.inserted
  /\ session' = IF r.cleared THEN <<>> ELSE session
  /\ out' = [out EXCEPT !.served = TRUE, !.status = r.status, !.inserted = r.inserted]

ServerImport(fl) ==
  /\ fl \in flights
  /\ fl.stage = "import sent"
  /\ \E o \in InsertManyOutcomes(session) : ImportServed(fl, importData(session, o))
  /\ UNCHANGED <<sheets, errors, showErrors, successMessage, isValidated, currentFile,
                 isLoading, activeStep, toast, reading, pass, now, data>>

\* the import request or its response is lost
LoseImport(fl) ==
  /\ fl \in flights
  /\ fl.stage \in {"import sent", "import answered"}
  /\ flights' = (flights \ {fl}) \cup
                  {[fl EXCEPT !.stage = "import lost", !.status = 0, !.body = NoBody]}
  /\ UNCHANGED <<sheets, errors, showErrors, successMessage, isValidated, currentFile,
                 isLoading, activeStep, toast, reading, pass, now, labVars, serverVars>>

\* defaultMessage: string = 'An error occurred'
DEFAULT_MESSAGE == "An error occurred"

\* the catch block of handleImport: handleAxiosError(error)
ImportErrorMessage(fl) ==
  handleAxiosError(
    IF fl.stage = "import answered"
    THEN MkAxiosError(TRUE, fl.status, MkApiError(<<>>, fl.body.error, ""), TRUE, "", "")
    ELSE MkAxiosError(FALSE, 0, MkApiError(<<>>, "", ""), TRUE, "", "Network Error"),
    DEFAULT_MESSAGE)

\* handleImport after the await: the response, the catch block, finally
ImportResponse(fl) ==
  /\ fl \in flights
  /\ fl.stage \in {"import answered", "import lost"}
  /\ flights' = flights \ {fl}
  /\ IF fl.stage = "import answered" /\ fl.status = 200
     THEN IF fl.body.success
          THEN /\ successMessage' = "Data imported successfully"
               /\ toast' = "Data imported successfully"
               /\ sheets' = <<>>
               /\ isValidated' = FALSE
               /\ currentFile' = NoFile
               /\ activeStep' = 0
               /\ UNCHANGED <<errors, showErrors>>
          ELSE /\ toast' = "Failed to import data. Please try again."
               /\ UNCHANGED <<successMessage, sheets, isValidated, currentFile, activeStep,
                              errors, showErrors>>
     ELSE /\ toast' = ImportErrorMessage(fl)[1]
          /\ UNCHANGED <<successMessage, sheets, isValidated, currentFile, activeStep,
                         errors, showErrors>>
  /\ isLoading' = FALSE
  /\ UNCHANGED <<reading, pass, now, labVars, serverVars>>

-----------------------------------------------------------------------------
(* The application: files are selected, validated and answered *)

R_Valid2 == RowOf(Str(<<"B">>), Num(75), Str(S_EdgeDate), Bool(FALSE))
R_WithNotes ==
  MkRow(<<"Name", "Amount", "Date", "Verified", "Notes">>,
        [Name |-> Str(S_A), Amount |-> Num(50), Date |-> Str(S_PastDate),
         Verified |-> Str(S_Yes), Notes |-> Null])
R_NullVerified == RowOf(Str(S_A), Num(50), Str(S_PastDate), Null)

Sheet(name, rows) == [name |-> name, rows |-> rows]

N_Data == <<"d","a","t","a",".","x","l","s","x">>
N_Old == <<"o","l","d",".","X","L","S">>
N_Text == <<"d","a","t","a",".","t","x","t">>

Files ==
  { MkFile(N_Data, XLSX_TYPE, 2048, <<Sheet("Sheet1", <<R_Valid, R_Valid2>>)>>),
    MkFile(N_Data, XLSX_TYPE, 2049, <<Sheet("Sheet1", <<R_FutureOnly>>)>>),
    MkFile(N_Data, XLSX_TYPE, 2050, <<Sheet("Sheet1", <<R_WithNotes>>)>>),
    MkFile(N_Data, XLSX_TYPE, 2051, <<Sheet("Sheet1", <<R_Valid>>),
                                      Sheet("Sheet2", <<R_FourErrors, R_Mixed>>)>>),
    MkFile(N_Data, XLSX_TYPE, 2052, <<Sheet("Sheet1", <<R_NullVerified, R_Valid>>)>>),
    MkFile(N_Data, XLSX_TYPE, 2053, <<Sheet("Sheet1", <<R_Valid>>), Sheet("Sheet2", <<>>)>>),
    MkFile(N_Old, XLS_TYPE, 2054, <<Sheet("Sheet1", <<R_Valid>>)>>),
    MkFile(N_Text, "text/plain", 2055, <<Sheet("Sheet1", <<R_Valid>>)>>) }

Init ==
  /\ data = NotArr
  /\ out = NoCall
  /\ now \in NowSet
  /\ AppInit

SelectAFile == \E file \in Files : HandleFileSelect(file)
FileIsRead == \E file \in reading : ReaderOnLoad(file)
FileReadFails == \E file \in reading : ReaderOnError(file)
DeleteARow ==
  \E i \in DOMAIN sheets : \E rowIndex \in 0..(Len(sheets[i].rows) - 1) :
    HandleDeleteRow(sheets[i].name, rowIndex)
ServerAnswers == \E fl \in flights : ServerValidate(fl)
FlightIsLost == \E fl \in flights : LoseFlight(fl)
ClientIsAnswered == \E fl \in flights : ValidateResponse(fl)
TimePasses == Tick

Next ==
  \/ SelectAFile
  \/ FileIsRead
  \/ FileReadFails
  \/ HandleValidate
  \/ DeleteARow
  \/ CloseErrors
  \/ ServerAnswers
  \/ FlightIsLost
  \/ ClientIsAnswered
  \/ TimePasses

Spec == Init /\ [][Next]_vars

-----------------------------------------------------------------------------
(* The application with the import: files are selected, edited, validated *)
(* and imported                                                           *)

R_NoVerifiedString == RowOf(Str(<<"C">>), NumH(1), Str(S_PastDate), Str(<<"n","o">>))

SessionFiles ==
  { MkFile(N_Data, XLSX_TYPE, 2060, <<Sheet("Sheet1", <<R_Valid, R_FourErrors>>)>>),
    MkFile(N_Data, XLSX_TYPE, 2061, <<Sheet("Sheet1", <<R_Valid, R_NoVerifiedString>>)>>) }

InitSession ==
  /\ data = NotArr
  /\ out = NoImport
  /\ now = Ts(EdgeDay, 1)
  /\ AppInit

SelectASessionFile == \E file \in SessionFiles : HandleFileSelect(file)
ServerImports == \E fl \in flights : ServerImport(fl)
ImportIsLost == \E fl \in flights : LoseImport(fl)
ImportIsAnswered == \E fl \in flights : ImportResponse(fl)

NextSession ==
  \/ SelectASessionFile
  \/ FileIsRead
  \/ FileReadFails
  \/ HandleValidate
  \/ DeleteARow
  \/ CloseErrors
  \/ ServerAnswers
  \/ FlightIsLost
  \/ ClientIsAnswered
  \/ HandleImport
  \/ ServerImports
  \/ ImportIsLost
  \/ ImportIsAnswered

SpecSession == InitSession /\ [][NextSession]_vars

-----------------------------------------------------------------------------
(* DataPreview: the sheet selector, the pagination and the delete dialog  *)
(* over the sheets of App                                                 *)

ROWS_PER_PAGE == 10

\* the most confirmed deletions of a run
MaxDeletes == 2

PreviewRow(k) == MkRow(<<"Amount">>, [Amount |-> Num(k)])
PreviewRows(first, n) == [i \in 1..n |-> PreviewRow(first + i - 1)]

PreviewSheets ==
  { <<Sheet("Sheet1", PreviewRows(1, ROWS_PER_PAGE + 1)), Sheet("Sheet2", PreviewRows(31, 2))>>,
    <<Sheet("Sheet1", PreviewRows(1, 2 * ROWS_PER_PAGE))>> }

NoDialog == [open |-> FALSE, sheetName |-> "", rowIndex |-> 0 - 1]

\* never clicked, never deleted
NoRow == [null |-> TRUE]

\* currentData, totalPages, startIndex, displayData
CurrentData(sh, selectedSheet) ==
  IF selectedSheet \in SheetNames(sh) THEN SheetNamed(sh, selectedSheet).rows ELSE <<>>
TotalPages(currentData) == (Len(currentData) + ROWS_PER_PAGE - 1) \div ROWS_PER_PAGE
StartIndex(page) == (page - 1) * ROWS_PER_PAGE
Slice(s, from, to) == SubSeq(s, from + 1, IF to < Len(s) THEN to ELSE Len(s))
DisplayData(currentData, page) ==
  Slice(currentData, StartIndex(page), StartIndex(page) + ROWS_PER_PAGE)

\* the first render: useState(Object.keys(sheets)[0] || ''), useState(1)
InitPreview ==
  /\ data \in PreviewSheets
  /\ now \in NowSet
  /\ out = [selectedSheet |-> data[1].name, page |-> 1, deleteDialog |-> NoDialog,
            clicked |-> NoRow, deleted |-> NoRow, deletes |-> 0]
  /\ AppInit

\* handleSheetChange
HandleSheetChange(sheetName) ==
  /\ ~out.deleteDialog.open
  /\ sheetName \in SheetNames(data)
  /\ out' = [out EXCEPT !.selectedSheet = sheetName, !.page = 1]
  /\ UNCHANGED <<data, now, appVars, serverVars>>

\* Pagination onChange, rendered when totalPages > 1
HandlePageChange(newPage) ==
  /\ ~out.deleteDialog.open
  /\ TotalPages(CurrentData(data, out.selectedSheet)) > 1
  /\ newPage \in 1..TotalPages(CurrentData(data, out.selectedSheet))
  /\ out' = [out EXCEPT !.page = newPage]
  /\ UNCHANGED <<data, now, appVars, serverVars>>

\* the delete button of the displayed row index: handleDeleteClick(
\* selectedSheet, startIndex + index)
HandleDeleteClick(index) ==
  /\ ~out.deleteDialog.open
  /\ out.deletes < MaxDeletes
  /\ index \in 0..(Len(DisplayData(CurrentData(data, out.selectedSheet), out.page)) - 1)
  /\ out' = [out EXCEPT !.deleteDialog = [open |-> TRUE, sheetName |-> out.selectedSheet,
                                          rowIndex |-> StartIndex(out.page) + index],
                        !.clicked = DisplayData(CurrentData(data, out.selectedSheet),
                                                out.page)[index + 1]]
  /\ UNCHANGED <<data, now, appVars, serverVars>>

\* handleDeleteConfirm: onDeleteRow is handleDeleteRow of App
HandleDeleteConfirm ==
  /\ out.deleteDialog.open
  /\ data' = FilterRow(data, out.deleteDialog.sheetName, out.deleteDialog.rowIndex)
  /\ out' = [out EXCEPT !.deleteDialog = NoDialog,
                        !.deleted = [clicked |-> out.clicked,
                                     row |-> CurrentData(data, out.deleteDialog.sheetName)
                                               [out.deleteDialog.rowIndex + 1]],
                        !.deletes = @ + 1]
  /\ UNCHANGED <<now, appVars, serverVars>>

\* Dialog onClose and the Cancel button
HandleDeleteCancel ==
  /\ out.deleteDialog.open
  /\ out' = [out EXCEPT !.deleteDialog = NoDialog, !.clicked = NoRow]
  /\ UNCHANGED <<data, now, appVars, serverVars>>

ASheetIsSelected == \E n \in SheetNames(data) : HandleSheetChange(n)
APageIsSelected == \E p \in 1..(2 * ROWS_PER_PAGE) : HandlePageChange(p)
ADeleteIsClicked == \E i \in 0..(ROWS_PER_PAGE - 1) : HandleDeleteClick(i)

NextPreview ==
  \/ ASheetIsSelected
  \/ APageIsSelected
  \/ ADeleteIsClicked
  \/ HandleDeleteConfirm
  \/ HandleDeleteCancel

SpecPreview == InitPreview /\ [][NextPreview]_vars

-----------------------------------------------------------------------------
(* The server API called by one session: validate and import requests,    *)
(* each handled to completion                                             *)

ServerFiles ==
  { MkFile(N_Data, XLSX_TYPE, 2048, <<Sheet("Sheet1", <<R_Valid, R_Valid2>>)>>),
    MkFile(N_Data, XLSX_TYPE, 2051, <<Sheet("Sheet1", <<R_Valid>>),
                                      Sheet("Sheet2", <<R_FourErrors, R_Mixed>>)>>),
    MkFile(N_Data, XLSX_TYPE, 2053, <<Sheet("Sheet1", <<R_Valid>>), Sheet("Sheet2", <<>>)>>),
    MkFile(N_Data, XLSX_TYPE, 2056, <<Sheet("Sheet1", <<R_NoVerifiedString>>),
                                      Sheet("Sheet2", <<R_Valid>>)>>),
    MkFile(N_Data, XLSX_TYPE, maxFileSize + 1, <<Sheet("Sheet1", <<R_Valid>>)>>),
    MkFile(N_Text, "text/plain", 2055, <<Sheet("Sheet1", <<R_Valid>>)>>) }

\* no request was handled yet
NoRequest ==
  [op |-> "none", status |-> 0, body |-> NoBody, file |-> NoFile, results |-> <<>>,
   sessionBefore |-> <<>>, inserted |-> <<>>, lastValidate |-> "none", validated |-> <<>>,
   sinceAccepted |-> <<>>, imports |-> 0]

InitServer ==
  /\ data = NotArr
  /\ now \in NowSet
  /\ out = NoRequest
  /\ AppInit

\* the upload passed multer: the extension and the size are accepted
Uploaded(file) == fileFilter(file) /\ file.size <= maxFileSize

\* what processFile returned, when the upload reached the controller
Processed(file, t) == IF Uploaded(file) THEN processFile(file.book, t) ELSE <<>>

\* the response to an upload whose sheets gave these results
Answer(file, results) ==
  IF ~fileFilter(file)
  THEN Response(500, ErrorBody("Invalid file type. Only .xlsx files are allowed."), FALSE, <<>>)
  ELSE IF file.size > maxFileSize
  THEN Response(500, ErrorBody("File too large"), FALSE, <<>>)
  ELSE validateFile(results)

\* a validate request handled with response r
Answered(file, results, r) ==
  /\ session' = IF r.stored THEN r.validatedData ELSE session
  /\ out' = [op |-> "validate", status |-> r.status, body |-> r.body, file |-> file,
             results |-> results, sessionBefore |-> session, inserted |-> <<>>,
             lastValidate |-> IF r.status = 200 THEN "accepted" ELSE "rejected",
             validated |-> IF r.status = 200 THEN r.validatedData ELSE out.validated,
             sinceAccepted |-> IF r.status = 200 THEN <<>> ELSE out.sinceAccepted,
             imports |-> out.imports]

ValidateHandled(file, results) == Answered(file, results, Answer(file, results))

\* POST /api/upload/validate
ApiValidate(file) ==
  /\ ValidateHandled(file, Processed(file, now))
  /\ UNCHANGED <<data, now, appVars, db>>

\* an import request handled with result r
ImportHandled(r) ==
  /\ db' = db \o r.inserted
  /\ session' = IF r.cleared THEN <<>> ELSE session
  /\ out' = [out EXCEPT !.op = "import", !.status = r.status, !.body = r.body,
                        !.sessionBefore = session, !.inserted = r.inserted,
                        !.sinceAccepted = @ \o r.inserted, !.imports = @ + 1]

\* POST /api/upload/import
ApiImport ==
  /\ out.imports < MaxImports
  /\ \E o \in InsertManyOutcomes(session) : ImportHandled(importData(session, o))
  /\ UNCHANGED <<data, now, appVars>>

AValidateRequest == \E file \in ServerFiles : ApiValidate(file)

NextServer == AValidateRequest \/ ApiImport

SpecServer == InitServer /\ [][NextServer]_vars

-----------------------------------------------------------------------------
(* Validate requests of different clients handled concurrently by the     *)
(* singleton ExcelService: processFile yields at every await, between two *)
(* sheets                                                                 *)

\* the most requests in progress at once
MaxRequests == 2

Requests == 1..MaxRequests

ConcurrentFiles == { file \in ServerFiles : Uploaded(file) }

Idle == [stage |-> "idle", file |-> NoFile, next |-> 0, overlapped |-> FALSE,
         status |-> 0, body |-> NoBody, rowCount |-> 0]

\* a variant where results is a field of the singleton service
ResultsOwner_Singleton(q) == 1

\* const results = [] is a local of processFile: each call owns its array
ResultsOwner(q) == q

InitConcurrent ==
  /\ data = NotArr
  /\ now \in NowSet
  /\ out = [req |-> [q \in Requests |-> Idle], results |-> [q \in Requests |-> <<>>]]
  /\ AppInit

OthersRunning(q) == \E p \in Requests \ {q} : out.req[p].stage = "running"

\* validateFile is entered and processFile starts: const results = []
Receive(q, file) ==
  /\ out.req[q].stage = "idle"
  /\ out' = [out EXCEPT !.req[q] = [Idle EXCEPT !.stage = "running", !.file = file, !.next = 1],
                        !.results[ResultsOwner(q)] = <<>>]
  /\ UNCHANGED <<data, now, appVars, serverVars>>

\* results.push(...) of the sheet just validated
PushResult(q, result) ==
  out' = [out EXCEPT !.results[ResultsOwner(q)] = Append(@, result),
                     !.req[q].next = @ + 1,
                     !.req[q].overlapped = @ \/ OthersRunning(q)]

\* one iteration of the loop of processFile, up to the next await
SheetDone(q) ==
  /\ out.req[q].stage = "running"
  /\ out.req[q].next <= Len(out.req[q].file.book)
  /\ PushResult(q, SheetResult(out.req[q].file.book[out.req[q].next].name,
                               validateSheetData(ServerDecode(out.req[q].file.book[out.req[q].next].rows),
                                                 out.req[q].file.book[out.req[q].next].name, now)))
  /\ UNCHANGED <<data, now, appVars, serverVars>>

\* the request is answered with r
Responded(q, r) ==
  out' = [out EXCEPT !.req[q].stage = "answered", !.req[q].status = r.status,
                     !.req[q].body = r.body, !.req[q].rowCount = Len(r.validatedData)]

\* processFile returns results and validateFile answers
Respond(q) ==
  /\ out.req[q].stage = "running"
  /\ out.req[q].next > Len(out.req[q].file.book)
  /\ Responded(q, validateFile(out.results[ResultsOwner(q)]))
  /\ UNCHANGED <<data, now, appVars, serverVars>>

ARequestArrives == \E q \in Requests : \E file \in ConcurrentFiles : Receive(q, file)
ASheetIsDone == \E q \in Requests : SheetDone(q)
ARequestIsAnswered == \E q \in Requests : Respond(q)

NextConcurrent == ARequestArrives \/ ASheetIsDone \/ ARequestIsAnswered

SpecConcurrent == InitConcurrent /\ [][NextConcurrent]_vars

-----------------------------------------------------------------------------
(* handleFileValidationError applied to a candidate file *)

N_Upper == <<"D","A","T","A",".","X","L","S","X">>
N_Double == <<"d","a","t","a",".","x","l","s","x",".","t","x","t">>
N_NoDot == <<"x","l","s","x">>
N_Macro == <<"d","a","t","a",".","x","l","s","m">>

FileNames == { N_Data, N_Upper, N_Old, N_Text, N_Double, N_NoDot, N_Macro }
FileTypes == { XLSX_TYPE, XLS_TYPE, "text/plain", "" }
FileSizes == { 0, 1, maxSize - 1, maxSize, maxSize + 1 }

GuardInputs ==
  { NoFile } \cup { MkFile(n, t, z, <<>>) : n \in FileNames, t \in FileTypes, z \in FileSizes }

InitFiles ==
  /\ data \in GuardInputs
  /\ now = Ts(EdgeDay, 0)
  /\ out = NoCall
  /\ AppInit

CallHandleFileValidationError ==
  /\ out' = [op |-> "handleFileValidationError", at |-> now,
             result |-> handleFileValidationError(data)]
  /\ UNCHANGED <<data, now, appVars, serverVars>>

NextFiles == CallHandleFileValidationError

SpecFiles == InitFiles /\ [][NextFiles]_vars

-----------------------------------------------------------------------------
(* The two validators run again and again on one input while time passes *)

\* the most calls of the validators remembered
MaxCalls == 2

RerunInputs ==
  { NotArr, Arr(<<>>) }
  \cup { Arr(<<r>>) : r \in SmallRows \cup {R_Valid2, R_NoAmountDate} }
  \cup { Arr(<<R_Valid2, R_FutureOnly>>), Arr(<<R_FourErrors, R_Valid2>>), Arr(<<R_Valid, R_Mixed>>) }
  \cup { SheetOf(keys, n) : keys \in KeyOrders, n \in {1, MaxRowCount} }

NoCalls == [op |-> "calls", calls |-> <<>>]

InitRerun ==
  /\ data \in RerunInputs
  /\ now \in NowSet
  /\ out = NoCalls
  /\ AppInit

\* a call of validateExcelData(data); the call is remembered with its time
\* and the input as it is after the call
RunValidateExcelData ==
  /\ Len(out.calls) < MaxCalls
  /\ out' = [out EXCEPT !.calls = Append(@, [fn |-> "validateExcelData", at |-> now, input |-> data,
                                              findings |-> validateExcelData(data, now)])]
  /\ UNCHANGED <<data, now, appVars, serverVars>>

\* a call of validateSheetStructure(data)
RunValidateSheetStructure ==
  /\ Len(out.calls) < MaxCalls
  /\ out' = [out EXCEPT !.calls = Append(@, [fn |-> "validateSheetStructure", at |-> now,
                                              input |-> data,
                                              findings |-> validateSheetStructure(data)])]
  /\ UNCHANGED <<data, now, appVars, serverVars>>

NextRerun == RunValidateExcelData \/ RunValidateSheetStructure \/ Tick

SpecRerun == InitRerun /\ [][NextRerun]_vars

-----------------------------------------------------------------------------
(* Properties of validateExcelData (SpecRows) *)

\* the findings of row k on column col, in output order
FindingsOf(fs, k, col) ==
  SelectSeq(fs, LAMBDA f : f.row = k /\ "column" \in DOMAIN f /\ f.column = col)

FindingsOfRow(fs, k) == SelectSeq(fs, LAMBDA f : f.row = k)

\* the header check of validateExcelData lets the rows through
HeaderOk(d) ==
  d.isArray /\ Len(d.rows) > 0 /\ \A c \in Range(requiredColumns) : HasKey(d.rows[1], c)

FieldIndex(col) == CHOOSE i \in 1..4 : requiredColumns[i] = col

\* C2: the list returned by validateExcelData is a stable partition: every
\* error precedes every warning, and within each severity the findings are
\* in non-decreasing row order.
Thm_C2_StablePartition ==
  out.op = "validateExcelData" =>
    LET f == out.findings IN
    /\ \A i \in DOMAIN f : IsError(f[i]) \/ IsWarning(f[i])
    /\ \A i, j \in DOMAIN f :
         i < j => /\ ~(IsWarning(f[i]) /\ IsError(f[j]))
                  /\ (f[i].severity = f[j].severity => f[i].row <= f[j].row)

\* two rows each pushing an error and a warning: the warning of row 1 was
\* pushed before the error of row 2 and is returned after it
Wit_C2_TwoRowsMixed ==
  /\ out.op = "validateExcelData"
  /\ \E i, j, k, l \in DOMAIN out.findings :
       /\ i < j /\ j < k /\ k < l
       /\ IsError(out.findings[i]) /\ IsError(out.findings[j])
       /\ IsWarning(out.findings[k]) /\ IsWarning(out.findings[l])
       /\ out.findings[i].row = 1 /\ out.findings[j].row = 2
       /\ out.findings[k].row = 1 /\ out.findings[l].row = 2

\* C1: client and server reach the same verdict on every row: the client
\* pipeline (normaliser, then validateExcelData) reports no error for the
\* row iff the server's validateRow returns isValid for the same raw row.
CE_C1_SameVerdict ==
  out.op = "pipelines" =>
    \A k \in DOMAIN out.server :
      (\A i \in DOMAIN out.findings :
          ~(IsError(out.findings[i]) /\ out.findings[i].row = k))
      <=> out.server[k].isValid

\* C8: the field checks of a row are independent: each field yields at most
\* one finding, the finding of a field is the same whatever the other cells
\* of the row are, the errors of a row come in the order Name, Amount, Date,
\* Verified, and the row ("", -5, "bad", "maybe") yields the four errors.
Thm_C8_IndependentFields ==
  (out.op = "validateExcelData" /\ HeaderOk(data)) =>
    \A k \in DOMAIN data.rows :
      /\ \A c \in Range(requiredColumns) : Len(FindingsOf(out.findings, k, c)) <= 1
      /\ \A c \in Range(requiredColumns) : \A ctx \in SmallRows :
           FindingsOf(validateExcelData(
                        Arr([data.rows EXCEPT ![k] = SetKey(ctx, c, Get(data.rows[k], c))]),
                        out.at), k, c)
             = FindingsOf(out.findings, k, c)
      /\ LET fs == FindingsOfRow(out.findings, k) IN
         \A i, j \in DOMAIN fs :
           (i < j /\ IsError(fs[i]) /\ IsError(fs[j]))
             => FieldIndex(fs[i].column) < FieldIndex(fs[j].column)
      /\ data.rows[k] = R_FourErrors =>
           FindingsOfRow(out.findings, k) =
             << CellFinding(k, "Name", <<"Name is required">>, "error"),
                CellFinding(k, "Amount", <<"Amount must be positive">>, "error"),
                CellFinding(k, "Date", <<"Invalid date format">>, "error"),
                CellFinding(k, "Verified", <<"Verified must be Yes/No or True/False">>, "error") >>

Wit_C8_FourErrors ==
  /\ out.op = "validateExcelData"
  /\ data = Arr(<<R_FourErrors>>)
  /\ Len(out.findings) = 4

\* C9: a numeric Amount <= 0 yields exactly the error "must be positive", one
\* above 1,000,000 yields exactly one warning "unusually large" and no
\* error, and one in (0, 1,000,000] yields no Amount finding.
Thm_C9_AmountRule ==
  (out.op = "validateExcelData" /\ HeaderOk(data)) =>
    \A k \in DOMAIN data.rows :
      LET cell == Get(data.rows[k], "Amount")
          fs == FindingsOf(out.findings, k, "Amount")
      IN cell.t = "number" =>
           IF cell.n <= 0
           THEN fs = <<CellFinding(k, "Amount", <<"Amount must be positive">>, "error")>>
           ELSE IF cell.n > 1000000 * 100
           THEN fs = <<CellFinding(k, "Amount", <<"Amount is unusually large (>1,000,000)">>,
                                   "warning")>>
           ELSE fs = <<>>

\* Amount exactly 1,000,000: no finding
Wit_C9_AtLimit ==
  /\ out.op = "validateExcelData"
  /\ HeaderOk(data)
  /\ \E k \in DOMAIN data.rows :
       /\ Get(data.rows[k], "Amount") = NumH(100000000)
       /\ FindingsOf(out.findings, k, "Amount") = <<>>

\* C10: a missing Date yields the error "Date is required", an unparseable
\* one the error "Invalid date format", a parseable one the warning "Date is
\* in the future" exactly when it is strictly after the current timestamp;
\* an otherwise valid row with a future date yields that warning only.
Thm_C10_DateRule ==
  (out.op = "validateExcelData" /\ HeaderOk(data)) =>
    \A k \in DOMAIN data.rows :
      LET cell == Get(data.rows[k], "Date")
          fs == FindingsOf(out.findings, k, "Date")
          parsed == DateParse(cell.s)
      IN /\ (cell.t \in {"undefined", "null"} \/ cell = Str(<<>>)) =>
              fs = <<CellFinding(k, "Date", <<"Date is required">>, "error")>>
         /\ (cell.t = "string" /\ cell.s # <<>>) =>
              IF ~parsed.ok
              THEN fs = <<CellFinding(k, "Date", <<"Invalid date format">>, "error")>>
              ELSE IF parsed.d > out.at.d \/ (parsed.d = out.at.d /\ parsed.ms > out.at.ms)
              THEN fs = <<CellFinding(k, "Date", <<"Date is in the future">>, "warning")>>
              ELSE fs = <<>>
         /\ data.rows[k] = R_FutureOnly =>
              FindingsOfRow(out.findings, k)
                = <<CellFinding(k, "Date", <<"Date is in the future">>, "warning")>>

\* a date equal to the current timestamp: no finding
Wit_C10_DateEqualsNow ==
  /\ out.op = "validateExcelData"
  /\ HeaderOk(data)
  /\ \E k \in DOMAIN data.rows :
       /\ Get(data.rows[k], "Date") = Str(S_EdgeDate)
       /\ out.at = Ts(EdgeDay, 0)
       /\ FindingsOf(out.findings, k, "Date") = <<>>

\* C11: the Verified rule of validateExcelData. A null or absent Verified
\* yields exactly the error "Verified status is required"; a string whose
\* lower-cased, trimmed form is not yes, no, true or false yields exactly
\* the error "Verified must be Yes/No or True/False"; a value that is
\* neither missing, a string nor a boolean yields exactly the error
\* "Verified must be a boolean value"; a boolean, or one of the four tokens
\* in any case and with surrounding white space, yields no finding.
Thm_C11_VerifiedRule ==
  (out.op = "validateExcelData" /\ HeaderOk(data)) =>
    \A k \in DOMAIN data.rows :
      LET cell == Get(data.rows[k], "Verified")
          fs == FindingsOf(out.findings, k, "Verified")
      IN CASE cell.t \in {"undefined", "null"} ->
                fs = <<CellFinding(k, "Verified", <<"Verified status is required">>, "error")>>
           [] cell.t = "string" ->
                IF Trim(ToLowerCase(cell.s)) \in
                     { <<"y","e","s">>, <<"n","o">>, <<"t","r","u","e">>, <<"f","a","l","s","e">> }
                THEN fs = <<>>
                ELSE fs = <<CellFinding(k, "Verified",
                                        <<"Verified must be Yes/No or True/False">>, "error")>>
           [] cell.t = "boolean" -> fs = <<>>
           [] OTHER ->
                fs = <<CellFinding(k, "Verified", <<"Verified must be a boolean value">>, "error")>>

\* the token TRUE in upper case between spaces is accepted
Wit_C11_PaddedToken ==
  /\ out.op = "validateExcelData"
  /\ HeaderOk(data)
  /\ \E k \in DOMAIN data.rows :
       /\ Get(data.rows[k], "Verified") = Str(<<" ","T","R","U","E"," ">>)
       /\ FindingsOf(out.findings, k, "Verified") = <<>>

\* C17: every finding of validateExcelData that is not tied to a data row
\* (it carries no column) has row = 0, and every finding on a cell has the
\* number of its row, the array index plus 1; so a finding with row >= 1
\* refers to a data row.
CE_C17_RowNumbers ==
  out.op = "validateExcelData" =>
    \A i \in DOMAIN out.findings :
      IF "column" \in DOMAIN out.findings[i]
      THEN data.isArray /\ out.findings[i].row \in DOMAIN data.rows
      ELSE out.findings[i].row = 0

\* C24: in the client pipeline (normaliser, then validateExcelData) a row
\* whose raw Verified cell is a string outside yes, no, true, false, or
\* whose raw Date cell is an unparseable string, still gets an error on
\* that column: the normaliser never turns an invalid raw cell into a value
\* that validateExcelData accepts.
CE_C24_InvalidStaysInvalid ==
  (out.op = "pipelines" /\ HeaderOk(data)) =>
    \A k \in DOMAIN data.rows :
      LET verified == Get(data.rows[k], "Verified")
          date == Get(data.rows[k], "Date")
      IN /\ (verified.t = "string" /\ Trim(ToLowerCase(verified.s)) \notin VerifiedTokens) =>
              \E i \in DOMAIN out.findings :
                IsError(out.findings[i]) /\ out.findings[i] \in Range(FindingsOf(out.findings, k, "Verified"))
         /\ (date.t = "string" /\ ~DateParse(date.s).ok) =>
              \E i \in DOMAIN out.findings :
                IsError(out.findings[i]) /\ out.findings[i] \in Range(FindingsOf(out.findings, k, "Date"))

-----------------------------------------------------------------------------
(* Properties of validateSheetStructure (SpecStructure) *)

\* the required columns absent from the first row, and its other keys
MissingOf(d) == { c \in {"Name", "Amount", "Date", "Verified"} : c \notin DOMAIN d.rows[1].vals }
OthersOf(d) ==
  SelectSeq(d.rows[1].keys, LAMBDA k : k \notin {"Name", "Amount", "Date", "Verified"})

\* the names listed by a message  <<prefix, n1, ", ", n2, ...>>
Listed(msg) == [i \in 1..(Len(msg) \div 2) |-> msg[2 * i]]
WellJoined(msg) ==
  /\ Len(msg) % 2 = 0
  /\ \A i \in 3..Len(msg) : i % 2 = 1 => msg[i] = ", "

ListsExactly(msg, prefix, S) ==
  /\ msg[1] = prefix
  /\ WellJoined(msg)
  /\ Range(Listed(msg)) = S
  /\ Len(Listed(msg)) = Cardinality(S)

ColumnChecksReached(d) == d.isArray /\ Len(d.rows) > 0 /\ Len(d.rows) <= 10000

Thm_C6_RowLimit ==
  (out.op = "validateSheetStructure" /\ data.isArray) =>
    LET f == out.findings
        tooMany == SheetFinding(0, <<"Sheet contains too many rows (>10,000). Please split the data into smaller files.">>, "error")
    IN /\ Len(data.rows) = 10000 =>
            /\ \A i \in DOMAIN f : f[i] # tooMany
            /\ (MissingOf(data) # {}) <=>
                 (\E i \in DOMAIN f : IsError(f[i]) /\ f[i].message[1] = "Missing required columns: ")
            /\ (OthersOf(data) # <<>>) <=> (\E i \in DOMAIN f : IsWarning(f[i]))
       /\ Len(data.rows) >= 10001 => f = <<tooMany>>

Wit_C6_TenThousandRows ==
  /\ out.op = "validateSheetStructure"
  /\ data.isArray /\ Len(data.rows) = 10000
  /\ MissingOf(data) # {}
  /\ IsError(out.findings[1]) /\ out.findings[1].message[1] = "Missing required columns: "

\* C7: with all four required columns present and other keys X in the first
\* row, the result is exactly one warning at row 0 listing X in first-row
\* key order; with no other key it is the empty list.
Thm_C7_ExtraColumns ==
  (out.op = "validateSheetStructure" /\ ColumnChecksReached(data) /\ MissingOf(data) = {}) =>
    LET f == out.findings IN
    IF OthersOf(data) # <<>>
    THEN /\ Len(f) = 1
         /\ IsWarning(f[1]) /\ f[1].row = 0
         /\ f[1].message[1] = "Warning: Found extra columns that will be ignored: "
         /\ WellJoined(f[1].message)
         /\ Listed(f[1].message) = OthersOf(data)
    ELSE f = <<>>

Wit_C7_TwoExtraInKeyOrder ==
  /\ out.op = "validateSheetStructure"
  /\ ColumnChecksReached(data) /\ MissingOf(data) = {}
  /\ OthersOf(data) = <<"Notes", "DT">>
  /\ Len(out.findings) = 1 /\ Listed(out.findings[1].message) = <<"Notes", "DT">>

-----------------------------------------------------------------------------
(* Properties of handleValidate (Spec) *)

\* the structural and the field findings of sheet n of the pass, computed
\* at the time of the pass
StructureOf(p, n) == validateSheetStructure(Arr(SheetNamed(p.sheets, n).rows))
FieldsOf(p, n) == validateExcelData(Arr(SheetNamed(p.sheets, n).rows), p.at)

HasError(fs) == \E i \in DOMAIN fs : IsError(fs[i])

ErrorsFirst(fs) == \A i, j \in DOMAIN fs : (i < j /\ IsWarning(fs[i])) => ~IsError(fs[j])

\* C3: a pass of handleValidate sends the request to the server exactly
\* when no sheet has an error-severity structural or field finding;
\* findings of warning severity do not withhold the submission.
CE_C3_OnlyErrorsBlock ==
  pass.ran =>
    (pass.posted <=>
       \A n \in SheetNames(pass.sheets) :
         ~HasError(StructureOf(pass, n)) /\ ~HasError(FieldsOf(pass, n)))

\* C4: in a pass of handleValidate, an error-severity structural finding on
\* any sheet means validateExcelData is not run and nothing is sent;
\* otherwise validateExcelData is run and the field findings of every sheet
\* that has some are displayed under the sheet's name, errors before
\* warnings.
CE_C4_StructureThenFields ==
  pass.ran =>
    IF \E n \in SheetNames(pass.sheets) : HasError(StructureOf(pass, n))
    THEN ~pass.ranData /\ ~pass.posted
    ELSE /\ pass.ranData
         /\ \A n \in SheetNames(pass.sheets) :
              FieldsOf(pass, n) # <<>> =>
                /\ pass.shown
                /\ n \in DOMAIN pass.display
                /\ pass.display[n] = FieldsOf(pass, n)
                /\ ErrorsFirst(pass.display[n])

-----------------------------------------------------------------------------
(* Properties of the normaliser (SpecNormalize) *)

\* the cells of the rows handed to the normaliser: <<row index, key>>
CellsOf(d) == { <<i, k>> : i \in DOMAIN d.rows, k \in NormKeys } \cap
              UNION { { <<i, k>> : k \in Range(d.rows[i].keys) } : i \in DOMAIN d.rows }

\* C12: the normaliser maps a Verified string, lower-cased and trimmed, to
\* true for yes and true and to false for no and false; any other string is
\* passed through as it is, a boolean is unchanged, any other type becomes
\* null.
CE_C12_VerifiedTokens ==
  out.op = "normalize" =>
    \A c \in CellsOf(data) :
      c[2] = "Verified" =>
        LET v == data.rows[c[1]].vals["Verified"]
            r == out.once[c[1]].vals["Verified"]
        IN CASE v.t = "string" ->
                  IF Trim(ToLowerCase(v.s)) \in { <<"y","e","s">>, <<"t","r","u","e">> }
                  THEN r = Bool(TRUE)
                  ELSE IF Trim(ToLowerCase(v.s)) \in { <<"n","o">>, <<"f","a","l","s","e">> }
                  THEN r = Bool(FALSE)
                  ELSE r = v
             [] v.t = "boolean" -> r = v
             [] OTHER -> r = Null

\* day 0 of the spreadsheet serial numbers, as a day count from 1970-01-01
SerialDayZero == DaysFromCivil(1899, 12, 30)

\* C13: in a column whose name contains date, dt or time (any case) the
\* normaliser turns every numeric serial n into the date n days after
\* 1899-12-30 written YYYY-MM-DD (25569 gives 1970-01-01), a parseable
\* string into its YYYY-MM-DD date, and unparseable or absent input into
\* null.
CE_C13_DateColumns ==
  out.op = "normalize" =>
    \A c \in CellsOf(data) :
      (c[2] # "Verified" /\ IsDateKey(c[2])) =>
        LET v == data.rows[c[1]].vals[c[2]]
            r == out.once[c[1]].vals[c[2]]
        IN /\ v.t = "number" => r = Str(ISODate(Ts(SerialDayZero + (v.n \div 100), 0)))
           /\ v = Num(25569) => r = Str(<<"1","9","7","0","-","0","1","-","0","1">>)
           /\ v.t = "string" =>
                r = (IF DateParse(v.s).ok THEN Str(ISODate(DateParse(v.s))) ELSE Null)
           /\ v.t = "null" => r = Null

\* C14: the normaliser is idempotent: applied to its own output it returns
\* that output, for every raw cell and every column; a YYYY-MM-DD string of
\* a calendar date in a date column and a boolean in the Verified column
\* are returned unchanged.
Thm_C14_Idempotent ==
  out.op = "normalize" =>
    /\ out.twice = out.once
    /\ \A c \in CellsOf(data) :
         LET v == data.rows[c[1]].vals[c[2]]
             r == out.once[c[1]].vals[c[2]]
         IN /\ (IsDateKey(c[2]) /\ c[2] # "Verified" /\ v \in {Str(S_PastDate), Str(S_EdgeDate)})
                 => r = v
            /\ (c[2] = "Verified" /\ v.t = "boolean") => r = v

\* a serial number in a date column became a date string, and normalising
\* that string again returned it; a date string was returned unchanged
Wit_C14_SerialThenString ==
  /\ out.op = "normalize"
  /\ \E c \in CellsOf(data) :
       /\ IsDateKey(c[2])
       /\ data.rows[c[1]].vals[c[2]] = Num(45296)
       /\ out.once[c[1]].vals[c[2]] = Str(S_EdgeDate)
       /\ out.twice[c[1]].vals[c[2]] = Str(S_EdgeDate)

-----------------------------------------------------------------------------
(* Properties of formatValidationErrors (SpecFormat) *)

\* the bucket the claim gives a finding
BucketOf(f) == IF "sheetName" \in DOMAIN f THEN f.sheetName ELSE "Unknown Sheet"

\* the findings of the input that belong to bucket b, in input order
InputOf(errs, b) == SelectSeq(errs, LAMBDA f : BucketOf(f) = b)

\* C15: formatValidationErrors puts every input finding in exactly one
\* bucket, keyed by its sheetName or by "Unknown Sheet" when it has none;
\* the findings of a bucket are in input order; a message becomes
\* "{column}: {message}" when the finding has a column and is unchanged
\* otherwise; every other field is copied.
Thm_C15_FormatBuckets ==
  out.op = "formatValidationErrors" =>
    /\ DOMAIN out.result = { BucketOf(data[i]) : i \in DOMAIN data }
    /\ \A b \in DOMAIN out.result :
         /\ Len(out.result[b]) = Len(InputOf(data, b))
         /\ \A j \in DOMAIN out.result[b] :
              LET f == InputOf(data, b)[j]
                  g == out.result[b][j]
              IN /\ DOMAIN g = DOMAIN f
                 /\ \A x \in DOMAIN f \ {"message"} : g[x] = f[x]
                 /\ g.message = (IF "column" \in DOMAIN f
                                 THEN <<f.column, ": ">> \o f.message
                                 ELSE f.message)

\* three findings, the first and the last without sheetName around one of
\* Sheet1: two buckets, "Unknown Sheet" holding two findings in input order
Wit_C15_TwoBuckets ==
  /\ out.op = "formatValidationErrors"
  /\ Len(data) = 3
  /\ DOMAIN out.result = {"Unknown Sheet", "Sheet1"}
  /\ Len(out.result["Unknown Sheet"]) = 2
  /\ out.result["Unknown Sheet"][1].row = 2 /\ out.result["Unknown Sheet"][2].row = 0
  /\ out.result["Unknown Sheet"][1].message = <<"Name", ": ", "is required">>
  /\ out.result["Unknown Sheet"][2].message = <<"File is empty">>

-----------------------------------------------------------------------------
(* Properties of repeated validator calls (SpecRerun) *)

\* the rows of d whose Date is a parseable string strictly after t
FutureRows(d, t) ==
  IF ~d.isArray THEN {}
  ELSE { k \in DOMAIN d.rows :
           LET cell == Get(d.rows[k], "Date") IN
           cell.t = "string" /\ DateParse(cell.s).ok /\ TsLT(t, DateParse(cell.s)) }

\* C16 as stated: any two runs of the same validator on the same input, at
\* any two times, return identical findings, and the input is unchanged.
CE_C16_SameAtAnyTimes ==
  out.op = "calls" =>
    /\ \A i \in DOMAIN out.calls : out.calls[i].input = data
    /\ \A i, j \in DOMAIN out.calls :
         out.calls[i].fn = out.calls[j].fn => out.calls[i].findings = out.calls[j].findings

\* C16: validateSheetStructure returns identical findings on every run on
\* the same input; validateExcelData reads the clock, and two runs on the
\* same input return identical findings whenever the same rows have a Date
\* after the time of the run (in particular at equal times); no run changes
\* the input.
Thm_C16_SameGivenTime ==
  out.op = "calls" =>
    /\ \A i \in DOMAIN out.calls : out.calls[i].input = data
    /\ \A i, j \in DOMAIN out.calls :
         /\ (out.calls[i].fn = "validateSheetStructure" /\ out.calls[j].fn = "validateSheetStructure")
              => out.calls[i].findings = out.calls[j].findings
         /\ (/\ out.calls[i].fn = "validateExcelData" /\ out.calls[j].fn = "validateExcelData"
             /\ FutureRows(data, out.calls[i].at) = FutureRows(data, out.calls[j].at))
              => out.calls[i].findings = out.calls[j].findings

\* two runs of validateExcelData at different times, on rows with a Date
\* equal to the time of the first run, returned the same findings
Wit_C16_TwoRunsApart ==
  /\ out.op = "calls"
  /\ Len(out.calls) = 2
  /\ out.calls[1].fn = "validateExcelData" /\ out.calls[2].fn = "validateExcelData"
  /\ data = Arr(<<R_Valid2, R_FutureOnly>>)
  /\ out.calls[1].at = Ts(EdgeDay, 0) /\ out.calls[2].at = Ts(EdgeDay, 1)
  /\ out.calls[1].findings = out.calls[2].findings
  /\ out.calls[1].findings # <<>>

-----------------------------------------------------------------------------
(* Properties of handleAxiosError (SpecAxios) *)

\* the positions of the entries of severity error
ErrorEntries(errs) ==
  { i \in DOMAIN errs : "severity" \in DOMAIN errs[i] /\ errs[i].severity = "error" }

\* C18: for a failure that carries a response, handleAxiosError returns the
\* message of the first entry of errors with severity error when there is
\* one; otherwise the error field when present, otherwise the message
\* field, and only when none is present the fixed string of the status.
Thm_C18_ResponsePriority ==
  (out.op = "handleAxiosError" /\ data.hasResponse) =>
    LET body == data.data
        E == ErrorEntries(body.errors)
    IN /\ E # {} => out.result = <<body.errors[CHOOSE i \in E : \A j \in E : i <= j].message>>
       /\ (E = {} /\ body.error # "") => out.result = <<body.error>>
       /\ (E = {} /\ body.error = "" /\ body.message # "") => out.result = <<body.message>>
       /\ (E = {} /\ body.error = "" /\ body.message = "") =>
            /\ out.result = StatusMessage(data.status)
            /\ data.status = 413 =>
                 out.result = <<"The file is too large. Please split it into smaller files.">>
            /\ data.status = 503 =>
                 out.result = <<"Server error (", "5", "0", "3", "). Please try again later.">>

\* a body with a warning before two errors, and with error and message
\* set: the message of the first error is returned
Wit_C18_FirstErrorEntry ==
  /\ out.op = "handleAxiosError"
  /\ data.hasResponse
  /\ data.data = MkApiError(<<E_Warning, E_First, E_Second>>, "Validation Error",
                            "File validated with problems")
  /\ out.result = <<"Name is required">>

\* C19: for a failure without a response, handleAxiosError returns the
\* timeout message when the request was aborted (code ECONNABORTED), every
\* aborted request yielding it, and the connectivity message when a request
\* was made and no response received.
CE_C19_TransportFailures ==
  (out.op = "handleAxiosError" /\ ~data.hasResponse) =>
    /\ data.code = "ECONNABORTED" => out.result = <<TIMEOUT_MESSAGE>>
    /\ (data.hasRequest /\ data.code # "ECONNABORTED") => out.result = <<NO_RESPONSE_MESSAGE>>

-----------------------------------------------------------------------------
(* Properties of handleFileValidationError (SpecFiles) *)

\* the name ends in .xlsx or .xls, in any case
EndsInExcelSuffix(name) ==
  \E n \in {4, 5} :
    /\ Len(name) >= n
    /\ ToLowerCase(SubSeq(name, Len(name) - n + 1, Len(name)))
         \in { <<".","x","l","s">>, <<".","x","l","s","x">> }

-----------------------------------------------------------------------------
(* Properties of the server API (SpecServer) *)

\* C21: every record stored in session.validatedData has the persisted
\* shape: name a string, amount a number >= 0, date a valid date, verified
\* a boolean (never null or undefined), sheetName the name of its sheet.
CE_C21_PersistedShape ==
  \A i \in DOMAIN session :
    /\ session[i].name.t = "string"
    /\ session[i].amount.t = "number" /\ session[i].amount.n >= 0
    /\ session[i].date.ok
    /\ session[i].verified.t = "boolean"
    /\ (out.op = "validate" /\ out.status = 200) =>
         session[i].sheetName \in { out.file.book[j].name : j \in DOMAIN out.file.book }

\* the number of elements of seq equal to x
Count(seq, x) == Cardinality({ i \in DOMAIN seq : seq[i] = x })

\* C27: after a validateFile that reports errors or fails, an importData
\* call persists nothing: the data of an earlier successful validation is
\* never imported.
CE_C27_RejectedThenImport ==
  (out.op = "import" /\ out.lastValidate = "rejected") => out.inserted = <<>>

\* after a successful import the session is cleared, and an import answered
\* 400 'No validated data found' inserts nothing
ImportClears ==
  out.op = "import" =>
    /\ out.status = 200 => session = <<>>
    /\ out.sessionBefore = <<>> =>
         out.status = 400 /\ out.body.error = NO_VALIDATED_DATA /\ out.inserted = <<>>

\* C28: across the importData calls that follow one successful validateFile,
\* retries after a failed or partially failed bulk insert included, no
\* validated row is persisted more than once; after a successful import the
\* session is cleared and a further importData answers 400 and inserts
\* nothing.
CE_C28_ConsumedOnce ==
  /\ \A x \in Range(out.sinceAccepted) :
       Count(out.sinceAccepted, x) <= Count(out.validated, x)
  /\ ImportClears

\* the rows of sheet i of the file of the last validate request, and the
\* row numbers of its errors
RowsRead(i) == ServerDecode(out.file.book[i].rows)
ErrorRows(i) == { out.results[i].errors[j].row : j \in DOMAIN out.results[i].errors }

\* C29: every row of a sheet gives exactly one record to valid or at least
\* one entry to errors, never both and never neither; validateFile stores
\* the records and answers success only when no sheet has an error, and
\* otherwise answers 400 with the errors of all sheets and stores nothing.
Thm_C29_AllOrNothing ==
  (out.op = "validate" /\ Uploaded(out.file)) =>
    /\ DOMAIN out.results = DOMAIN out.file.book
    /\ \A i \in DOMAIN out.results :
         /\ ErrorRows(i) \subseteq 2..(Len(RowsRead(i)) + 1)
         /\ Len(out.results[i].data) + Cardinality(ErrorRows(i)) = Len(RowsRead(i))
         /\ \A j \in DOMAIN out.results[i].data : out.results[i].data[j] # NullData
    /\ IF \A i \in DOMAIN out.results : out.results[i].errors = <<>>
       THEN /\ out.status = 200 /\ out.body.success
            /\ session = FlatData(out.results)
       ELSE /\ out.status = 400 /\ ~out.body.success
            /\ out.body.errors = FlatErrors(out.results)
            /\ session = out.sessionBefore

Wit_C29_OneSheetFails ==
  /\ out.op = "validate" /\ out.status = 400
  /\ Len(out.results) = 2
  /\ Len(out.results[1].data) = 1 /\ out.results[1].errors = <<>>
  /\ out.results[2].data = <<>> /\ Cardinality(ErrorRows(2)) = 2
  /\ Len(out.results[2].errors) > 2
  /\ session # <<>>

-----------------------------------------------------------------------------
(* Properties of concurrent validate requests (SpecConcurrent) *)

\* the answer to a request for this file handled with no other request
AloneAnswer(file) == validateFile(processFile(file.book, now))

\* C23: for any interleaving of validate requests on independent inputs,
\* the findings and the row count returned for each request are those the
\* request would return if it ran alone.
Thm_C23_NoInterference ==
  \A q \in Requests :
    out.req[q].stage = "answered" =>
      /\ out.req[q].status = AloneAnswer(out.req[q].file).status
      /\ out.req[q].body = AloneAnswer(out.req[q].file).body
      /\ out.req[q].rowCount = Len(AloneAnswer(out.req[q].file).validatedData)

Wit_C23_Interleaved ==
  /\ out.req[1].stage = "answered" /\ out.req[2].stage = "answered"
  /\ out.req[1].overlapped /\ out.req[2].overlapped
  /\ out.req[1].file # out.req[2].file
  /\ out.req[1].status = 400 /\ Len(out.req[1].body.errors) > 0
  /\ out.req[2].status = 200 /\ out.req[2].rowCount = 2

-----------------------------------------------------------------------------
(* Properties of the application with the import (SpecSession) *)

\* the local findings of a pass over the rows sh at time t
LocalFindingsOf(sh, t) ==
  IF DOMAIN StructureErrors(sh) # {} THEN StructureErrors(sh) ELSE DataErrors(sh, t)

\* every finding of the map errs is on a row of the sheets sh
OnRowsOf(errs, sh) ==
  \A n \in DOMAIN errs :
    /\ n \in SheetNames(sh)
    /\ \A i \in DOMAIN errs[n] : errs[n][i].row \in 2..(Len(SheetNamed(sh, n).rows) + 1)

\* C22: when a pass of handleValidate completes, with local findings, the
\* server's acceptance, the server's rejection or a failed request, the
\* errors state holds only the findings of that pass over the current rows:
\* no finding of an earlier pass remains.
CE_C22_NoStaleFindings ==
  (pass.ran /\ pass.done) =>
    /\ pass.outcome = "local" =>
         pass.errorsAfter = LocalFindingsOf(pass.sheetsAfter, pass.at)
    /\ pass.outcome \in {"accepted", "failed"} => pass.errorsAfter = EmptyMap
    /\ pass.outcome = "rejected" =>
         /\ pass.errorsAfter = ErrorsBySheet(pass.serverErrors)
         /\ OnRowsOf(pass.errorsAfter, pass.sheetsAfter)

\* the Name cells of the rows held for sheet n, and of the documents
\* inserted for sheet n
NamesHeld(n) ==
  [i \in DOMAIN SheetNamed(out.held, n).rows |-> Get(SheetNamed(out.held, n).rows[i], "Name")]
InsertedFor(n) == SelectSeq(out.inserted, LAMBDA d : d.sheetName = n)
NamesInserted(n) == [i \in DOMAIN InsertedFor(n) |-> InsertedFor(n)[i].name]

\* C25: the rows an import persists are the rows the client held when
\* Import was pressed: a row deleted after the validation is not inserted.
CE_C25_ImportsWhatIsHeld ==
  (out.op = "import" /\ out.served /\ out.status = 200) =>
    /\ \A i \in DOMAIN out.inserted : out.inserted[i].sheetName \in SheetNames(out.held)
    /\ \A n \in SheetNames(out.held) : NamesInserted(n) = NamesHeld(n)

\* the rows of sh are rows of the decoded content of file, sheet by sheet
\* (rows deleted in the preview apart)
DecodedFrom(sh, file) ==
  /\ SheetNames(sh) = SheetNames(ProcessSheets(file.book))
  /\ \A n \in SheetNames(sh) :
       Range(SheetNamed(sh, n).rows) \subseteq Range(SheetNamed(ProcessSheets(file.book), n).rows)

\* C26: whenever isValidated is true, sheets is the decoded content of
\* currentFile and the session's validated data was computed from
\* currentFile (an import may have consumed it), also when a file is
\* selected while a validation request is in flight.
CE_C26_ValidatedForCurrentFile ==
  isValidated =>
    /\ currentFile # NoFile
    /\ DecodedFrom(sheets, currentFile)
    /\ session \in {<<>>, PostValidate(currentFile, now).validatedData}

-----------------------------------------------------------------------------
(* Properties of DataPreview (SpecPreview) *)

\* the row passed to onDeleteRow is the displayed row that was clicked
DeletesClickedRow == out.deleted # NoRow => out.deleted.row = out.deleted.clicked

\* C30: after any page changes, sheet changes and confirmed deletions the
\* page is within 1..max(1, totalPages) of the selected sheet, a non-empty
\* selected sheet shows at least one row, and the row index passed to
\* onDeleteRow is the index of the displayed row in the sheet's rows.
CE_C30_PageInRange ==
  /\ out.page >= 1
  /\ out.page <= (IF TotalPages(CurrentData(data, out.selectedSheet)) > 1
                  THEN TotalPages(CurrentData(data, out.selectedSheet)) ELSE 1)
  /\ CurrentData(data, out.selectedSheet) # <<>> =>
       DisplayData(CurrentData(data, out.selectedSheet), out.page) # <<>>
  /\ DeletesClickedRow

====
